---- MODULE Spec2Model ----
(***************************************************************************)
(* Model of niceman's job orchestrators                                    *)
(* (src/niceman/support/jobs/orchestrators.py).                            *)
(*                                                                         *)
(* Each Orchestrator instance is a sequential process driven by a caller.  *)
(* A handler is cut into steps at its Session operations, so that several  *)
(* instances sharing one Session interleave at exactly those points.       *)
(*                                                                         *)
(* Values: a string or a path is a sequence of strings; a path is a        *)
(* sequence of components and is absolute when its first component is "/". *)
(* A dict (the job spec, a template context, a rendered text) is a set of  *)
(* <<key, value>> pairs with at most one pair per key.                     *)
(***************************************************************************)
EXTENDS Integers, Sequences, FiniteSets, TLC

\* ------------------------------------------------------------------ bounds

\* Calls the caller makes on one instance when it calls in any order.
MaxCalls == 3

\* The longest list of files handed to search_for_files.
MaxFiles == 3

\* ------------------------------------------------------------- the values

Orchs == {"o1", "o2"}

\* Python's None, as a value no path or string equals.
None == <<"<None>">>

\* Python truthiness of an optional string: None and "" are falsy.
Falsy(v) == v = None \/ v = <<>>

\* os.path.isabs
IsAbs(p) == p # None /\ Len(p) > 0 /\ p[1] = "/"

\* os.path.join(a, b): an absolute b discards a.
Join(a, b) == IF IsAbs(b) THEN b ELSE a \o b

\* The directories `mkdir -p p` leaves in existence.
Ancestors(p) == {SubSeq(p, 1, k) : k \in 1..Len(p)}

\* dict helpers
Keys(d) == {kv[1] : kv \in d}
Get(d, k) == IF k \in Keys(d) THEN (CHOOSE kv \in d : kv[1] = k)[2] ELSE None
Without(d, k) == {kv \in d : kv[1] # k}

\* What the resource answers to printf '%s' $PWD when the query works.
Pwd == <<"/", "home", "user">>

\* The answers one PWD query can give: the directory, or nothing.
PwdAnswers == {Pwd, <<>>}

AbsOverride == <<"/", "scratch">>
RelOverride == <<"runs">>

CommandStr == <<"echo hi">>

\* The job specs a caller passes to the constructor (None is passed as the
\* empty dict: `job_spec or {}` makes no difference between them).
JobSpecs ==
    { {},
      {<<"command_str", CommandStr>>},
      {<<"command_str", CommandStr>>, <<"root_directory", AbsOverride>>},
      {<<"command_str", CommandStr>>, <<"root_directory", RelOverride>>},
      {<<"command_str", CommandStr>>, <<"root_directory", <<>> >>},
      {<<"root_directory", AbsOverride>>} }

\* The job specs passed when two instances run side by side.
PairJobSpecs ==
    { {<<"command_str", CommandStr>>},
      {<<"command_str", CommandStr>>, <<"root_directory", AbsOverride>>} }

\* uuid4()[:4] after the timestamp: two draws may collide.
JobIds == {"20181001-120000-a1b2", "20181001-120000-c3d4"}

\* The draws of instance o: which identifier the first instance draws makes
\* no difference, the second draws the same one or another.
JobIdsOf(o) == IF o = "o1" THEN {"20181001-120000-a1b2"} ELSE JobIds

\* Dataset(".").id of the caller's dataset; resource.name.
DsId == <<"6e1ffae2">>
ResourceName == "myshell"

\* Identifiers a Submitter hands back.
SubmIds == {<<"101">>, <<"102">>}

\* Outcomes of submitter.submit: an identifier, None, or an exception.
SubmitRaises == <<"<raise>">>
SubmitOutcomes == SubmIds \cup {None, SubmitRaises}

\* The template files found under job_templates/: absent, or present and
\* referencing these variables.
NoTemplate == [exists |-> FALSE, refs |-> {}]
RunTemplates ==
    { NoTemplate,
      [exists |-> TRUE,
       refs |-> {"jobid", "remote_directory", "meta_directory", "command_str"}] }
SubTemplates ==
    { NoTemplate,
      [exists |-> TRUE, refs |-> {"jobid", "meta_directory", "root_directory"}],
      [exists |-> TRUE, refs |-> {"meta_directory", "queue"}] }

ResourceTypes == {"ssh", "shell", "docker-container"}

\* The exceptions, by what raises them.
ErrPwd == "ValueError: Could not determine PWD on remote"
ErrNotAbs == "ValueError: Root directory is not an absolute path"
ErrNoTemplate == "jinja2.TemplateNotFound"
ErrUndefined == "jinja2.UndefinedError"
ErrPut == "session.put raised"
ErrSubmitter == "submitter.submit raised"
ErrMissingDependency == "MissingExternalDependency"
ErrNoDataset == "ValueError: datalad-pair requires a local dataset"
ErrFollow == "submitter.follow raised"
ErrKey == "KeyError"
ErrResourceType == "ValueError: Unsupported resource type"

VARIABLES
    driver,         \* how the caller calls: "free" (any order) or "pipeline"
    live,           \* the instances the caller constructs
    templates,      \* [runscript, submission]: the template files installed
    rtype,          \* resource.type of the shared resource
    pc,             \* per instance: where its caller is
    jobid,          \* per instance: self.jobid
    given_spec,     \* per instance: the dict the caller passed, as passed
    caller_spec,    \* per instance: the caller's dict now
    job_spec,       \* per instance: self.job_spec
    root_dir,       \* per instance: self._root_directory
    ncalls,         \* per instance: calls started
    call,           \* per instance: the running (or last finished) call
    rd_hist,        \* per instance: history of root_directory reads
    got_ids,        \* per instance: identifiers the Submitter returned to it
    ntmp,           \* per instance: temporary files created so far
    local_tmp,      \* caller's host: temporary files that exist
    dirs,           \* resource: directories that exist
    remote_scripts, \* resource: <<path, text>> of the files put there
    idmap_files,    \* resource: <<path, lines>> of the idmap files
    klass,          \* per instance: the orchestrator class (its `name`)
    run_kwds,       \* per instance: DataladRunOrchestrator.run_kwds
    life,           \* per instance: history of its lifecycle
    render_hist,    \* per instance: history of its successful renderings
    retrace         \* a search_for_files call: its arguments and its return

vars == <<driver, live, templates, rtype, pc, jobid, given_spec, caller_spec,
          job_spec, root_dir, ncalls, call, rd_hist, got_ids, ntmp, local_tmp,
          dirs, remote_scripts, idmap_files, klass, run_kwds, life,
          render_hist, retrace>>

\* A call that has not been made.
NoCall ==
    [op |-> "none", outcome |-> "none", value |-> None, ops |-> <<>>,
     tmps |-> {}, uncached |-> FALSE, popped |-> None, pwd |-> None,
     subm |-> None, submitted |-> FALSE, text |-> {}, inputs |-> <<>>,
     tfh |-> <<"", 0>>, outputs |-> <<>>, waited |-> FALSE,
     subm_raised |-> FALSE, bundle |-> "unchecked", datalad |-> "unread"]

\* The lifecycle of an instance nothing has been called on: its stage, whether
\* a prepare_remote has completed without error, whether a submit has
\* returned, and how often the root directory was made and each job file
\* written.
Created == 0
Prepared == 1
Staged == 2
Submitted == 3
Followed == 4
NoLife ==
    [stage |-> Created, prepared |-> FALSE, returned |-> FALSE,
     mkroot |-> 0, nrun |-> 0, nsub |-> 0, nidmap |-> 0]

\* The orchestrator classes (ORCHESTRATORS).
Classes == {"datalad-pair", "datalad-run"}

\* No rendering yet: the texts returned, by operation, how many of each,
\* and whether one of them was made by the call that took the override out
\* of the job spec.
NoRenderings ==
    [texts |-> {},
     n |-> [opname \in {"render_runscript", "render_submission"} |-> 0],
     consumed |-> FALSE]

NoHist == [values |-> {}, n |-> 0, nok |-> 0, okq |-> 0, allq |-> 0]

\* ----------------------------------------------------------- retrace

\* The file paths a trace may hold, and the packages dpkg knows.
Files == {"/bin/ls", "/usr/bin/git", "/home/u/notes"}
PackageNames == {"coreutils", "git"}

\* The lists of files handed to search_for_files.
FileLists == UNION {[1..n -> Files] : n \in 0..MaxFiles}

\* What `dpkg-query -W` answers for a package: its exit code and the lines
\* it prints, each as the fields l.split() gives; the size is in kbytes.
QueryAnswers ==
    [code : {0, 1},
     out : {<<>>, <<<<"1:2.39">>>>, <<<<"1:2.39", 12>>>>}]

\* The system a search runs on: whether it has a dpkg-query executable, the
\* package `dpkg-query -S` names for each file ("" when it exits non-zero),
\* the files for which what -S prints holds a byte that is not ASCII, and
\* the answer of `dpkg-query -W` for each package.
Systems == [dpkg : BOOLEAN,
            owner : [Files -> PackageNames \cup {""}],
            garbled : SUBSET Files,
            query : [PackageNames -> QueryAnswers]]

\* No search_for_files call.
NoRetrace == [files |-> <<>>, system |-> None, called |-> FALSE,
              raised |-> "", returned |-> None]

\* A call that returned v, and a call that raised e.
Returned(v) == [raised |-> "", value |-> v]
Raised(e) == [raised |-> e, value |-> None]

ErrIndex == "IndexError: list index out of range"
ErrNoDpkg == "FileNotFoundError: dpkg-query"
ErrDecode == "UnicodeDecodeError: 'ascii' codec can't decode byte"

\* find_dpkg_for_file(filename): "" when there is no dpkg-query (OSError)
\* or it exits non-zero (CalledProcessError); otherwise its output is
\* decoded as ASCII, which raises on any other byte, and the package name
\* is what stands before ": ".
_get_package_for_file(system, filename) ==
    IF ~system.dpkg \/ system.owner[filename] = "" THEN Returned("")
    ELSE IF filename \in system.garbled THEN Raised(ErrDecode)
    ELSE Returned(system.owner[filename])

\* Python's None where a package record is expected.
NoPackage == [name |-> "", version |-> None, size |-> None, files |-> <<>>]

\* DpkgManager._create_package(pkgname): Popen fails without dpkg-query;
\* the first line printed is parsed into version and size before the exit
\* code is looked at; then the record with an empty "files" list when the
\* exit code is 0, None otherwise.
_create_package(system, pkgname) ==
    IF ~system.dpkg THEN Raised(ErrNoDpkg)
    ELSE LET answer == system.query[pkgname]
             parsed == answer.out # <<>>
             fields == IF parsed THEN answer.out[1] ELSE <<>>
         IN IF parsed /\ Len(fields) < 2 THEN Raised(ErrIndex)
            ELSE IF answer.code = 0
            THEN Returned([name |-> pkgname,
                           version |-> IF parsed THEN fields[1] ELSE None,
                           size |-> IF parsed THEN fields[2] * 1024 ELSE None,
                           files |-> <<>>])
            ELSE Returned(NoPackage)

\* Python truthiness of what _create_package returned: None is falsy, a
\* record (a dict with its four keys) is truthy.
Truthy(pkg) == pkg.name # ""

\* The locals of search_for_files before its loop.
search_for_files_locals ==
    [unknown_files |-> {}, found_packages |-> <<>>, nb_pkg_files |-> 0,
     raised |-> ""]

\* found_packages[pkgname] = pkg
SetItem(d, k, v) == [x \in DOMAIN d \cup {k} |-> IF x = k THEN v ELSE d[x]]

\* The loop body of search_for_files for one file f; an error raised by
\* _get_package_for_file or _create_package ends the call.
search_for_files_body(system, st, f) ==
    LET named == _get_package_for_file(system, f)
        pkgname == named.value
        created == _create_package(system, pkgname)
        pkg == created.value
    IN IF named.raised # ""
       THEN [st EXCEPT !.raised = named.raised]
       ELSE IF pkgname = ""
       THEN [st EXCEPT !.unknown_files = @ \cup {f}]
       ELSE IF pkgname \in DOMAIN st.found_packages
       THEN [st EXCEPT !.found_packages[pkgname].files = Append(@, f)]
       ELSE IF created.raised # ""
       THEN [st EXCEPT !.raised = created.raised]
       ELSE IF Truthy(pkg)
       THEN [st EXCEPT
               !.found_packages =
                   SetItem(@, pkgname, [pkg EXCEPT !.files = Append(@, f)]),
               !.nb_pkg_files = @ + 1]
       ELSE [st EXCEPT !.unknown_files = @ \cup {f}]

RECURSIVE search_for_files_loop(_, _, _)
\* `for f in files:` from the locals st.
search_for_files_loop(system, st, files) ==
    IF files = <<>> \/ st.raised # "" THEN st
    ELSE search_for_files_loop(system,
                               search_for_files_body(system, st, Head(files)),
                               Tail(files))

\* PackageManager.search_for_files(files): (found_packages, unknown_files),
\* or the error one of the two lookups raised.
search_for_files(system, files) ==
    LET st == search_for_files_loop(system, search_for_files_locals, files)
    IN IF st.raised # "" THEN Raised(st.raised)
       ELSE Returned(<<st.found_packages, st.unknown_files>>)

\* ------------------------------------------------- the pure computations

\* `self.job_spec = job_spec or {}`: the instance keeps the caller's own dict
\* unless that dict is empty (or None), when it makes a new one.
Aliased(o) == given_spec[o] # {}

\* The result of not evaluating root_directory at all.
NoRead(o) ==
    [read |-> FALSE, err |-> "", value |-> None, queried |-> FALSE,
     uncached |-> FALSE, popped |-> None, pwd |-> None,
     root |-> root_dir[o], spec |-> job_spec[o]]

\* root_directory without `self._root_directory = root_directory`: the
\* value is returned and never kept.
root_directory_unmemoized(o, ans) ==
    LET popped == Get(job_spec[o], "root_directory")
        queried == Falsy(popped)
        base == [NoRead(o) EXCEPT !.read = TRUE, !.uncached = TRUE,
                                  !.popped = popped, !.queried = queried,
                                  !.pwd = IF queried THEN ans ELSE None,
                                  !.spec = Without(job_spec[o], "root_directory")]
        candidate == IF queried
                     THEN Join(Join(ans, <<".niceman">>), <<"datasets">>)
                     ELSE popped
    IN IF queried /\ Falsy(ans) THEN [base EXCEPT !.err = ErrPwd]
       ELSE IF ~IsAbs(candidate) THEN [base EXCEPT !.err = ErrNotAbs]
       ELSE [base EXCEPT !.value = candidate]

\* root_directory without the op.isabs test.
root_directory_unchecked(o, ans) ==
    IF root_dir[o] # None
    THEN [NoRead(o) EXCEPT !.read = TRUE, !.value = root_dir[o]]
    ELSE
      LET popped == Get(job_spec[o], "root_directory")
          queried == Falsy(popped)
          base == [NoRead(o) EXCEPT !.read = TRUE, !.uncached = TRUE,
                                    !.popped = popped, !.queried = queried,
                                    !.pwd = IF queried THEN ans ELSE None,
                                    !.spec = Without(job_spec[o], "root_directory")]
          candidate == IF queried
                       THEN Join(Join(ans, <<".niceman">>), <<"datasets">>)
                       ELSE popped
      IN IF queried /\ Falsy(ans) THEN [base EXCEPT !.err = ErrPwd]
         ELSE [base EXCEPT !.value = candidate, !.root = candidate]

\* root_directory with the PWD query made before the memoized value is
\* looked at.
root_directory_query_first(o, ans) ==
    IF root_dir[o] # None
    THEN [NoRead(o) EXCEPT !.read = TRUE, !.value = root_dir[o],
                           !.queried = TRUE, !.pwd = ans]
    ELSE
      LET popped == Get(job_spec[o], "root_directory")
          base == [NoRead(o) EXCEPT !.read = TRUE, !.uncached = TRUE,
                                    !.popped = popped, !.queried = TRUE,
                                    !.pwd = ans,
                                    !.spec = Without(job_spec[o], "root_directory")]
          candidate == IF Falsy(popped)
                       THEN Join(Join(ans, <<".niceman">>), <<"datasets">>)
                       ELSE popped
      IN IF Falsy(popped) /\ Falsy(ans) THEN [base EXCEPT !.err = ErrPwd]
         ELSE IF ~IsAbs(candidate) THEN [base EXCEPT !.err = ErrNotAbs]
         ELSE [base EXCEPT !.value = candidate, !.root = candidate]

\* root_directory with the PWD query made before the override is looked at.
root_directory_always_queries(o, ans) ==
    IF root_dir[o] # None
    THEN [NoRead(o) EXCEPT !.read = TRUE, !.value = root_dir[o]]
    ELSE
      LET popped == Get(job_spec[o], "root_directory")
          base == [NoRead(o) EXCEPT !.read = TRUE, !.uncached = TRUE,
                                    !.popped = popped, !.queried = TRUE,
                                    !.pwd = ans,
                                    !.spec = Without(job_spec[o], "root_directory")]
          candidate == IF Falsy(popped)
                       THEN Join(Join(ans, <<".niceman">>), <<"datasets">>)
                       ELSE popped
      IN IF Falsy(popped) /\ Falsy(ans) THEN [base EXCEPT !.err = ErrPwd]
         ELSE IF ~IsAbs(candidate) THEN [base EXCEPT !.err = ErrNotAbs]
         ELSE [base EXCEPT !.value = candidate, !.root = candidate]

\* root_directory without the `if not remote_pwd` test.
root_directory_no_pwd_check(o, ans) ==
    IF root_dir[o] # None
    THEN [NoRead(o) EXCEPT !.read = TRUE, !.value = root_dir[o]]
    ELSE
      LET popped == Get(job_spec[o], "root_directory")
          queried == Falsy(popped)
          base == [NoRead(o) EXCEPT !.read = TRUE, !.uncached = TRUE,
                                    !.popped = popped, !.queried = queried,
                                    !.pwd = IF queried THEN ans ELSE None,
                                    !.spec = Without(job_spec[o], "root_directory")]
          candidate == IF queried
                       THEN Join(Join(ans, <<".niceman">>), <<"datasets">>)
                       ELSE popped
      IN IF ~IsAbs(candidate) THEN [base EXCEPT !.err = ErrNotAbs]
         ELSE [base EXCEPT !.value = candidate, !.root = candidate]

\* Property root_directory, evaluated when a PWD query would answer `ans`:
\* the error raised or the value returned, whether the resource was queried,
\* the value popped from the job spec, and the new _root_directory and
\* job_spec.
root_directory(o, ans) ==
    IF root_dir[o] # None
    THEN [NoRead(o) EXCEPT !.read = TRUE, !.value = root_dir[o]]
    ELSE
      LET popped == Get(job_spec[o], "root_directory")
          spec2 == Without(job_spec[o], "root_directory")
          queried == Falsy(popped)
          base == [NoRead(o) EXCEPT !.read = TRUE, !.uncached = TRUE,
                                    !.popped = popped, !.queried = queried,
                                    !.pwd = IF queried THEN ans ELSE None,
                                    !.spec = spec2]
          candidate == IF queried
                       THEN Join(Join(ans, <<".niceman">>), <<"datasets">>)
                       ELSE popped
      IN IF queried /\ Falsy(ans)
         THEN [base EXCEPT !.err = ErrPwd]
         ELSE IF ~IsAbs(candidate)
         THEN [base EXCEPT !.err = ErrNotAbs]
         ELSE [base EXCEPT !.value = candidate, !.root = candidate]

\* working_directory as the dataset id alone, not joined to root_directory.
working_directory_not_joined(root) == DsId

\* DataladPairOrchestrator.working_directory, given root_directory's value
\* (self._working_directory is never set).
working_directory(root) == Join(root, DsId)

\* meta_directory without the job id as its last component.
meta_directory_without_jobid(o, root) ==
    Join(Join(Join(working_directory(root), <<".niceman">>), <<"jobs">>),
         <<ResourceName>>)

\* Property meta_directory, given root_directory's value.
meta_directory(o, root) ==
    Join(Join(Join(Join(working_directory(root), <<".niceman">>), <<"jobs">>),
              <<ResourceName>>),
         <<jobid[o]>>)

\* The keyword arguments of template.render with remote_directory bound to
\* root_directory instead of working_directory.
render_context_remote_is_root(o, root, spec) ==
    { <<"jobid", <<jobid[o]>> >>,
      <<"root_directory", root>>,
      <<"remote_directory", root>>,
      <<"meta_directory", meta_directory(o, root)>> } \cup spec

\* The keyword arguments of template.render with a job identifier made up at
\* each rendering instead of self.jobid.
render_context_fresh_jobid(o, root, spec) ==
    { <<"jobid", <<jobid[o], call[o].op>> >>,
      <<"root_directory", root>>,
      <<"remote_directory", working_directory(root)>>,
      <<"meta_directory", meta_directory(o, root)>> } \cup spec

\* The keyword arguments of template.render.
render_context(o, root, spec) ==
    { <<"jobid", <<jobid[o]>> >>,
      <<"root_directory", root>>,
      <<"remote_directory", working_directory(root)>>,
      <<"meta_directory", meta_directory(o, root)>> } \cup spec

\* jinja2 with its default Undefined: a missing variable renders as "".
jinja_render_lenient(tpl, ctx) ==
    [err |-> "",
     text |-> {<<v, IF v \in Keys(ctx) THEN Get(ctx, v) ELSE <<>> >> : v \in tpl.refs}]

\* jinja2 with StrictUndefined: the text is the template's variables with
\* the values substituted for them.
jinja_render(tpl, ctx) ==
    IF tpl.refs \subseteq Keys(ctx)
    THEN [err |-> "", text |-> {<<v, Get(ctx, v)>> : v \in tpl.refs}]
    ELSE [err |-> ErrUndefined, text |-> {}]

\* _render_template when root_directory evaluates as the read `r`:
\* env.get_template first, then the arguments of render (root_directory
\* first among those that can fail), then the rendering.
rendered(o, tpl, r) ==
    IF ~tpl.exists THEN [err |-> ErrNoTemplate, text |-> {}]
    ELSE IF r.err # "" THEN [err |-> r.err, text |-> {}]
    ELSE jinja_render(tpl, render_context(o, r.value, r.spec))

\* _render_template called by the caller: the error or the text, and the
\* read of root_directory it made (none when the template is missing).
render_template(o, tpl, ans) ==
    LET r == root_directory(o, ans)
        out == rendered(o, tpl, r)
    IN [err |-> out.err, text |-> out.text,
        rd |-> IF tpl.exists THEN r ELSE NoRead(o)]

\* --------------------------------------------------------- bookkeeping

PwdQuery == <<"execute_command", <<"printf '%s' $PWD">> >>

\* The record of a call that starts by evaluating root_directory as `r`.
StartCall(opname, r) ==
    [NoCall EXCEPT !.op = opname, !.outcome = "running",
                   !.uncached = r.uncached, !.popped = r.popped,
                   !.pwd = r.pwd,
                   !.ops = IF r.queried THEN <<PwdQuery>> ELSE <<>>]

\* What a read `r` of root_directory leaves behind in the instance, in the
\* caller's dict and in the history of reads.
ReadEffects(o, r) ==
    /\ root_dir' = [root_dir EXCEPT ![o] = r.root]
    /\ job_spec' = [job_spec EXCEPT ![o] = r.spec]
    /\ caller_spec' = [caller_spec EXCEPT ![o] = IF Aliased(o) THEN r.spec ELSE @]
    /\ rd_hist' = [rd_hist EXCEPT ![o] =
         IF ~r.read THEN @
         ELSE [values |-> IF r.err = "" THEN @.values \cup {r.value} ELSE @.values,
               n |-> @.n + 1,
               nok |-> IF r.err = "" THEN @.nok + 1 ELSE @.nok,
               okq |-> IF r.err = "" /\ r.queried THEN @.okq + 1 ELSE @.okq,
               allq |-> IF r.queried THEN @.allq + 1 ELSE @.allq]]

PipelineOps == <<"prepare_remote", "submit", "follow">>

\* Whether the caller may now call `opname` on instance o.
MayCall(o, opname) ==
    /\ pc[o] = "idle"
    /\ IF driver = "free"
       THEN ncalls[o] < MaxCalls
       ELSE /\ ncalls[o] < Len(PipelineOps)
            /\ PipelineOps[ncalls[o] + 1] = opname
            /\ call[o].outcome = "ok"

Began(o) == ncalls' = [ncalls EXCEPT ![o] = @ + 1]

Resource == <<dirs, remote_scripts, idmap_files>>
Setup == <<driver, live, templates, rtype, jobid, given_spec, klass, retrace>>

\* ---------------------------------------------------------------- Init

InitCommon ==
    /\ templates \in [runscript : RunTemplates, submission : SubTemplates]
    /\ rtype \in ResourceTypes
    /\ pc = [o \in Orchs |-> "new"]
    /\ jobid = [o \in Orchs |-> ""]
    /\ given_spec = [o \in Orchs |-> {}]
    /\ caller_spec = [o \in Orchs |-> {}]
    /\ job_spec = [o \in Orchs |-> {}]
    /\ root_dir = [o \in Orchs |-> None]
    /\ ncalls = [o \in Orchs |-> 0]
    /\ call = [o \in Orchs |-> NoCall]
    /\ rd_hist = [o \in Orchs |-> NoHist]
    /\ got_ids = [o \in Orchs |-> {}]
    /\ ntmp = [o \in Orchs |-> 0]
    /\ local_tmp = {}
    /\ dirs = Ancestors(Pwd)
    /\ remote_scripts = {}
    /\ idmap_files = {}
    /\ klass = [o \in Orchs |-> ""]
    /\ run_kwds = [o \in Orchs |-> {}]
    /\ life = [o \in Orchs |-> NoLife]
    /\ render_hist = [o \in Orchs |-> NoRenderings]
    /\ retrace = NoRetrace

\* One instance, called in any order.
Init == InitCommon /\ driver = "free" /\ live = {"o1"}

\* Two instances on one resource, each driven through the pipeline.
InitPair == InitCommon /\ driver = "pipeline" /\ live = Orchs

\* One instance driven through the pipeline.
InitRun == InitCommon /\ driver = "pipeline" /\ live = {"o1"}

\* ------------------------------------------------------- construction

\* What Orchestrator.__init__ does before it looks at the job spec:
\* resource.get_session() and the construction of the Submitter on it.
InitOps == << <<"get_session", <<ResourceName>>>>, <<"submitter_class", <<>>>> >>

\* The constructor with the test of external_versions["datalad"] made after
\* super().__init__ instead of before it.
Construct_checks_late(o) ==
    /\ pc[o] = "new"
    /\ o \in live
    /\ \E spec \in (IF live = Orchs THEN PairJobSpecs ELSE JobSpecs),
          id \in JobIdsOf(o), k \in Classes, datalad \in BOOLEAN,
          has_ds \in BOOLEAN :
         LET c == [NoCall EXCEPT !.op = "__init__", !.ops = InitOps,
                      !.datalad = IF datalad THEN "present" ELSE "absent"]
         IN /\ klass' = [klass EXCEPT ![o] = k]
            /\ IF datalad /\ has_ds
               THEN /\ given_spec' = [given_spec EXCEPT ![o] = spec]
                    /\ caller_spec' = [caller_spec EXCEPT ![o] = spec]
                    /\ job_spec' = [job_spec EXCEPT ![o] = spec]
                    /\ jobid' = [jobid EXCEPT ![o] = id]
                    /\ call' = [call EXCEPT ![o] = [c EXCEPT !.outcome = "ok"]]
                    /\ pc' = [pc EXCEPT ![o] = "idle"]
               ELSE /\ call' = [call EXCEPT ![o] =
                         [c EXCEPT !.outcome = IF ~datalad
                                               THEN ErrMissingDependency
                                               ELSE ErrNoDataset]]
                    /\ pc' = [pc EXCEPT ![o] = "failed"]
                    /\ UNCHANGED <<given_spec, caller_spec, job_spec, jobid>>
    /\ root_dir' = [root_dir EXCEPT ![o] = None]
    /\ UNCHANGED <<retrace, driver, live, templates, rtype, ncalls, rd_hist, got_ids,
                   ntmp, local_tmp, Resource, run_kwds, life, render_hist>>

\* DataladPairOrchestrator.__init__ and Orchestrator.__init__, in an
\* environment where DataLad is installed or not and the current directory
\* is a dataset or not. A constructor that raises hands no instance to the
\* caller: what it had assigned is lost with it.
Construct(o) ==
    /\ pc[o] = "new"
    /\ o \in live
    /\ \E spec \in (IF live = Orchs THEN PairJobSpecs ELSE JobSpecs),
          id \in JobIdsOf(o), k \in Classes, datalad \in BOOLEAN,
          has_ds \in BOOLEAN :
         LET c == [NoCall EXCEPT !.op = "__init__",
                      !.datalad = IF datalad THEN "present" ELSE "absent"]
         IN /\ klass' = [klass EXCEPT ![o] = k]
            /\ IF ~datalad
               THEN /\ call' = [call EXCEPT ![o] =
                         [c EXCEPT !.outcome = ErrMissingDependency]]
                    /\ pc' = [pc EXCEPT ![o] = "failed"]
                    /\ UNCHANGED <<given_spec, caller_spec, job_spec, jobid>>
               ELSE IF ~has_ds
               THEN /\ call' = [call EXCEPT ![o] =
                         [c EXCEPT !.ops = InitOps, !.outcome = ErrNoDataset]]
                    /\ pc' = [pc EXCEPT ![o] = "failed"]
                    /\ UNCHANGED <<given_spec, caller_spec, job_spec, jobid>>
               ELSE /\ given_spec' = [given_spec EXCEPT ![o] = spec]
                    /\ caller_spec' = [caller_spec EXCEPT ![o] = spec]
                    /\ job_spec' = [job_spec EXCEPT ![o] = spec]
                    /\ jobid' = [jobid EXCEPT ![o] = id]
                    /\ call' = [call EXCEPT ![o] =
                         [c EXCEPT !.ops = InitOps, !.outcome = "ok"]]
                    /\ pc' = [pc EXCEPT ![o] = "idle"]
    /\ root_dir' = [root_dir EXCEPT ![o] = None]
    /\ UNCHANGED <<retrace, driver, live, templates, rtype, ncalls, rd_hist, got_ids,
                   ntmp, local_tmp, Resource, run_kwds, life, render_hist>>

\* ------------------------------------------------ reads and renderings

\* The caller reads orchestrator.root_directory.
ReadRootDirectory(o) ==
    /\ MayCall(o, "root_directory")
    /\ \E ans \in PwdAnswers :
         LET r == root_directory(o, ans)
         IN /\ ReadEffects(o, r)
            /\ call' = [call EXCEPT ![o] =
                 [StartCall("root_directory", r) EXCEPT
                    !.outcome = IF r.err = "" THEN "ok" ELSE r.err,
                    !.value = r.value]]
    /\ Began(o)
    /\ UNCHANGED <<Setup, render_hist, life, run_kwds, pc, got_ids, ntmp, local_tmp, Resource>>

\* The caller reads orchestrator.working_directory (through root_directory).
ReadWorkingDirectory(o) ==
    /\ MayCall(o, "working_directory")
    /\ \E ans \in PwdAnswers :
         LET r == root_directory(o, ans)
         IN /\ ReadEffects(o, r)
            /\ call' = [call EXCEPT ![o] =
                 [StartCall("working_directory", r) EXCEPT
                    !.outcome = IF r.err = "" THEN "ok" ELSE r.err,
                    !.value = IF r.err = "" THEN working_directory(r.value)
                              ELSE None]]
    /\ Began(o)
    /\ UNCHANGED <<Setup, render_hist, life, run_kwds, pc, got_ids, ntmp, local_tmp, Resource>>

\* The caller reads orchestrator.meta_directory (through working_directory
\* and root_directory).
ReadMetaDirectory(o) ==
    /\ MayCall(o, "meta_directory")
    /\ \E ans \in PwdAnswers :
         LET r == root_directory(o, ans)
         IN /\ ReadEffects(o, r)
            /\ call' = [call EXCEPT ![o] =
                 [StartCall("meta_directory", r) EXCEPT
                    !.outcome = IF r.err = "" THEN "ok" ELSE r.err,
                    !.value = IF r.err = "" THEN meta_directory(o, r.value)
                              ELSE None]]
    /\ Began(o)
    /\ UNCHANGED <<Setup, render_hist, life, run_kwds, pc, got_ids, ntmp, local_tmp, Resource>>

\* render_runscript() and render_submission() with the default template.
Render(o, opname, tpl) ==
    /\ MayCall(o, opname)
    /\ \E ans \in PwdAnswers :
         LET out == render_template(o, tpl, ans)
         IN /\ ReadEffects(o, out.rd)
            /\ call' = [call EXCEPT ![o] =
                 [StartCall(opname, out.rd) EXCEPT
                    !.outcome = IF out.err = "" THEN "ok" ELSE out.err,
                    !.text = out.text]]
            /\ render_hist' = [render_hist EXCEPT ![o] =
                 IF out.err # "" THEN @
                 ELSE [texts |-> @.texts \cup {<<opname, out.text>>},
                       n |-> [@.n EXCEPT ![opname] = @ + 1],
                       consumed |-> @.consumed \/ out.rd.popped # None]]
    /\ Began(o)
    /\ UNCHANGED <<Setup, life, run_kwds, pc, got_ids, ntmp, local_tmp, Resource>>

render_runscript(o) == Render(o, "render_runscript", templates.runscript)

render_submission(o) == Render(o, "render_submission", templates.submission)

\* ------------------------------------------------------ step helpers

\* The instance's call record with one more operation logged.
Logged(o, opname, arg) == [call[o] EXCEPT !.ops = Append(@, <<opname, arg>>)]

\* self.root_directory as every step after a handler's first reads it: the
\* memoized value.
Root(o) == root_dir[o]

\* op.dirname(path)
Dirname(path) == SubSeq(path, 1, Len(path) - 1)

\* A file written at `path`, replacing what was there.
Written(files, path, content) ==
    {f \in files : f[1] # path} \cup {<<path, content>>}

\* The `inputs` arguments a caller passes to prepare_remote.
InputLists == {<<>>, <<"in.txt">>}

\* ------------------------------------------------------ prepare_remote

\* prepare_remote(inputs) up to the argument of its first session.exists.
prepare_remote_begin(o) ==
    /\ MayCall(o, "prepare_remote")
    /\ \E ans \in PwdAnswers, inputs \in InputLists :
         LET r == root_directory(o, ans)
         IN /\ ReadEffects(o, r)
            /\ call' = [call EXCEPT ![o] =
                 [StartCall("prepare_remote", r) EXCEPT
                    !.outcome = IF r.err = "" THEN "running" ELSE r.err,
                    !.inputs = inputs]]
            /\ pc' = [pc EXCEPT ![o] = IF r.err = "" THEN "pr_exists_root" ELSE "idle"]
    /\ Began(o)
    /\ UNCHANGED <<Setup, render_hist, life, run_kwds, got_ids, ntmp, local_tmp, Resource>>

\* Base prepare_remote without the `if not self.session.exists(...)` test:
\* the directory is made whatever the check says.
prepare_remote_exists_root_ignored(o) ==
    /\ pc[o] = "pr_exists_root"
    /\ call' = [call EXCEPT ![o] = Logged(o, "exists", Root(o))]
    /\ pc' = [pc EXCEPT ![o] = "pr_mkdir_root"]
    /\ UNCHANGED <<Setup, render_hist, life, run_kwds, caller_spec, job_spec, root_dir, ncalls, rd_hist,
                   got_ids, ntmp, local_tmp, Resource>>

\* session.exists(self.root_directory)
prepare_remote_exists_root(o) ==
    /\ pc[o] = "pr_exists_root"
    /\ call' = [call EXCEPT ![o] = Logged(o, "exists", Root(o))]
    /\ pc' = [pc EXCEPT ![o] = IF Root(o) \in dirs THEN "pr_stage" ELSE "pr_mkdir_root"]
    /\ UNCHANGED <<Setup, render_hist, life, run_kwds, caller_spec, job_spec, root_dir, ncalls, rd_hist,
                   got_ids, ntmp, local_tmp, Resource>>

\* session.mkdir(self.root_directory, parents=True)
prepare_remote_mkdir_root(o) ==
    /\ pc[o] = "pr_mkdir_root"
    /\ dirs' = dirs \cup Ancestors(Root(o))
    /\ call' = [call EXCEPT ![o] = Logged(o, "mkdir", Root(o))]
    /\ life' = [life EXCEPT ![o].mkroot = @ + 1]
    /\ pc' = [pc EXCEPT ![o] = "pr_stage"]
    /\ UNCHANGED <<Setup, render_hist, run_kwds, caller_spec, job_spec, root_dir, ncalls, rd_hist,
                   got_ids, ntmp, local_tmp, remote_scripts, idmap_files>>

\* DataladPairOrchestrator.prepare_remote without its final `else: raise
\* ValueError`: a resource of any other type is staged like a shell one.
prepare_remote_stage_any_type(o) ==
    /\ pc[o] = "pr_stage"
    /\ call' = [call EXCEPT ![o] =
         Logged(o, "exists", working_directory(Root(o)))]
    /\ pc' = [pc EXCEPT ![o] =
         IF working_directory(Root(o)) \in dirs
         THEN "pr_transfer" ELSE "pr_create"]
    /\ UNCHANGED <<Setup, render_hist, life, run_kwds, caller_spec, job_spec, root_dir, ncalls, rd_hist,
                   got_ids, ntmp, local_tmp, Resource>>

\* The branch on resource.type and session.exists(self.working_directory).
prepare_remote_stage(o) ==
    /\ pc[o] = "pr_stage"
    /\ IF rtype \in {"ssh", "shell"}
       THEN /\ call' = [call EXCEPT ![o] =
                 Logged(o, "exists", working_directory(Root(o)))]
            /\ pc' = [pc EXCEPT ![o] =
                 IF working_directory(Root(o)) \in dirs
                 THEN "pr_transfer" ELSE "pr_create"]
       ELSE /\ call' = [call EXCEPT ![o].outcome = ErrResourceType]
            /\ pc' = [pc EXCEPT ![o] = "idle"]
    /\ UNCHANGED <<Setup, render_hist, life, run_kwds, caller_spec, job_spec, root_dir, ncalls, rd_hist,
                   got_ids, ntmp, local_tmp, Resource>>

\* self.ds.create_sibling(sshurl, ...) or dl.install(working_directory, ...)
prepare_remote_create(o) ==
    /\ pc[o] = "pr_create"
    /\ dirs' = dirs \cup Ancestors(working_directory(Root(o)))
    /\ call' = [call EXCEPT ![o] =
         Logged(o, IF rtype = "ssh" THEN "datalad.create_sibling"
                   ELSE "datalad.install",
                working_directory(Root(o)))]
    /\ pc' = [pc EXCEPT ![o] = "pr_transfer"]
    /\ UNCHANGED <<Setup, render_hist, life, run_kwds, caller_spec, job_spec, root_dir, ncalls, rd_hist,
                   got_ids, ntmp, local_tmp, remote_scripts, idmap_files>>

\* self.ds.publish(to=resource.name, path=inputs, ...) for ssh;
\* installed_ds.get(inputs) for shell, when there are inputs.
prepare_remote_transfer(o) ==
    /\ pc[o] = "pr_transfer"
    /\ call' = [call EXCEPT ![o] =
         IF rtype = "ssh" THEN Logged(o, "datalad.publish", call[o].inputs)
         ELSE IF call[o].inputs # <<>>
         THEN Logged(o, "datalad.get", call[o].inputs)
         ELSE call[o]]
    /\ pc' = [pc EXCEPT ![o] = "pr_exists_meta"]
    /\ UNCHANGED <<Setup, render_hist, life, run_kwds, caller_spec, job_spec, root_dir, ncalls, rd_hist,
                   got_ids, ntmp, local_tmp, Resource>>

\* The return of prepare_remote: DataladRunOrchestrator keeps the inputs for
\* the run record, and the instance is PREPARED.
prepare_remote_return(o) ==
    /\ run_kwds' = [run_kwds EXCEPT ![o] =
         IF klass[o] = "datalad-run"
         THEN Without(@, "inputs") \cup {<<"inputs", call[o].inputs>>}
         ELSE @]
    /\ life' = [life EXCEPT ![o].prepared = TRUE, ![o].stage = Prepared]

\* DataladPairOrchestrator.prepare_remote without its last statement, the
\* session.mkdir(self.meta_directory, parents=True).
prepare_remote_exists_meta_only(o) ==
    /\ pc[o] = "pr_exists_meta"
    /\ call' = [call EXCEPT ![o] =
         [Logged(o, "exists", meta_directory(o, Root(o))) EXCEPT !.outcome = "ok"]]
    /\ pc' = [pc EXCEPT ![o] = "idle"]
    /\ prepare_remote_return(o)
    /\ UNCHANGED <<Setup, render_hist, caller_spec, job_spec, root_dir, ncalls, rd_hist,
                   got_ids, ntmp, local_tmp, Resource>>

\* session.exists(self.meta_directory)
prepare_remote_exists_meta(o) ==
    /\ pc[o] = "pr_exists_meta"
    /\ LET here == meta_directory(o, Root(o)) \in dirs
       IN /\ call' = [call EXCEPT ![o] =
               [Logged(o, "exists", meta_directory(o, Root(o))) EXCEPT
                  !.outcome = IF here THEN "ok" ELSE @]]
          /\ pc' = [pc EXCEPT ![o] = IF here THEN "idle" ELSE "pr_mkdir_meta"]
          /\ IF here THEN prepare_remote_return(o)
             ELSE UNCHANGED <<life, run_kwds>>
    /\ UNCHANGED <<Setup, render_hist, caller_spec, job_spec, root_dir, ncalls, rd_hist,
                   got_ids, ntmp, local_tmp, Resource>>

\* prepare_remote making meta_directory afresh: whatever job files lay at
\* its path are cleared away.
prepare_remote_mkdir_meta_fresh(o) ==
    /\ pc[o] = "pr_mkdir_meta"
    /\ dirs' = dirs \cup Ancestors(meta_directory(o, Root(o)))
    /\ remote_scripts' =
         {f \in remote_scripts : Dirname(f[1]) # meta_directory(o, Root(o))}
    /\ idmap_files' =
         {f \in idmap_files : Dirname(f[1]) # meta_directory(o, Root(o))}
    /\ call' = [call EXCEPT ![o] =
         [Logged(o, "mkdir", meta_directory(o, Root(o))) EXCEPT !.outcome = "ok"]]
    /\ pc' = [pc EXCEPT ![o] = "idle"]
    /\ prepare_remote_return(o)
    /\ UNCHANGED <<Setup, render_hist, caller_spec, job_spec, root_dir, ncalls, rd_hist,
                   got_ids, ntmp, local_tmp>>

\* session.mkdir(self.meta_directory, parents=True)
prepare_remote_mkdir_meta(o) ==
    /\ pc[o] = "pr_mkdir_meta"
    /\ dirs' = dirs \cup Ancestors(meta_directory(o, Root(o)))
    /\ call' = [call EXCEPT ![o] =
         [Logged(o, "mkdir", meta_directory(o, Root(o))) EXCEPT !.outcome = "ok"]]
    /\ pc' = [pc EXCEPT ![o] = "idle"]
    /\ prepare_remote_return(o)
    /\ UNCHANGED <<Setup, render_hist, caller_spec, job_spec, root_dir, ncalls, rd_hist,
                   got_ids, ntmp, local_tmp, remote_scripts, idmap_files>>

\* -------------------------------------------------------------- submit

\* The paths submit() writes under meta_directory.
remote_script(o) == Join(meta_directory(o, Root(o)), <<"runscript">>)
submission_file(o) == Join(meta_directory(o, Root(o)), <<"submit">>)
idmap_path(o) == Join(meta_directory(o, Root(o)), <<"idmap">>)

\* The shell command that records the submission identifier.
echo_idmap(o) == <<"execute_command", <<"echo >">> \o idmap_path(o)>>

\* NamedTemporaryFile(prefix="niceman-", delete=False): a new name.
NewTmp(o) == <<o, ntmp[o] + 1>>

\* submit() from its first line to the chmod of the first temporary file:
\* meta_directory is evaluated, the file is created, the run script is
\* rendered and written into it.
submit_begin(o) ==
    /\ MayCall(o, "submit")
    /\ \E ans \in PwdAnswers :
         LET r == root_directory(o, ans)
             out == rendered(o, templates.runscript, r)
             c == StartCall("submit", r)
         IN /\ ReadEffects(o, r)
            /\ IF r.err # ""
               THEN /\ call' = [call EXCEPT ![o] = [c EXCEPT !.outcome = r.err]]
                    /\ pc' = [pc EXCEPT ![o] = "idle"]
                    /\ UNCHANGED <<ntmp, local_tmp>>
               ELSE /\ ntmp' = [ntmp EXCEPT ![o] = @ + 1]
                    /\ local_tmp' = local_tmp \cup {NewTmp(o)}
                    /\ call' = [call EXCEPT ![o] =
                         [c EXCEPT !.tmps = {NewTmp(o)}, !.tfh = NewTmp(o),
                                   !.text = out.text,
                                   !.outcome = IF out.err = "" THEN "running"
                                               ELSE out.err]]
                    /\ pc' = [pc EXCEPT ![o] =
                         IF out.err = "" THEN "sb_put_run" ELSE "idle"]
    /\ Began(o)
    /\ UNCHANGED <<Setup, render_hist, life, run_kwds, got_ids, Resource>>

\* submit() making meta_directory itself before its first transfer, the
\* work of prepare_remote.
submit_put_runscript_ensures_meta(o) ==
    /\ pc[o] = "sb_put_run"
    /\ \E put_ok \in BOOLEAN :
         LET made == Logged(o, "mkdir", meta_directory(o, Root(o)))
             c == [made EXCEPT !.ops = Append(@, <<"put", remote_script(o)>>)]
             out == rendered(o, templates.submission, root_directory(o, <<>>))
         IN IF ~put_ok
            THEN /\ call' = [call EXCEPT ![o] = [c EXCEPT !.outcome = ErrPut]]
                 /\ pc' = [pc EXCEPT ![o] = "idle"]
                 /\ UNCHANGED <<ntmp, local_tmp, remote_scripts, life>>
            ELSE /\ remote_scripts' =
                      Written(remote_scripts, remote_script(o), call[o].text)
                 /\ life' = [life EXCEPT ![o].nrun = @ + 1]
                 /\ ntmp' = [ntmp EXCEPT ![o] = @ + 1]
                 /\ local_tmp' = (local_tmp \ {call[o].tfh}) \cup {NewTmp(o)}
                 /\ call' = [call EXCEPT ![o] =
                      [c EXCEPT !.tmps = @ \cup {NewTmp(o)}, !.tfh = NewTmp(o),
                                !.text = out.text,
                                !.outcome = IF out.err = "" THEN @ ELSE out.err]]
                 /\ pc' = [pc EXCEPT ![o] =
                      IF out.err = "" THEN "sb_put_sub" ELSE "idle"]
    /\ dirs' = dirs \cup Ancestors(meta_directory(o, Root(o)))
    /\ UNCHANGED <<Setup, render_hist, run_kwds, caller_spec, job_spec, root_dir, ncalls, rd_hist,
                   got_ids, idmap_files>>

\* session.put(tfh.name, remote_script); os.unlink(tfh.name); then the
\* second temporary file, into which the submission script is rendered.
submit_put_runscript(o) ==
    /\ pc[o] = "sb_put_run"
    /\ \E put_ok \in BOOLEAN :
         LET c == Logged(o, "put", remote_script(o))
             out == rendered(o, templates.submission, root_directory(o, <<>>))
         IN IF ~put_ok
            THEN /\ call' = [call EXCEPT ![o] = [c EXCEPT !.outcome = ErrPut]]
                 /\ pc' = [pc EXCEPT ![o] = "idle"]
                 /\ UNCHANGED <<ntmp, local_tmp, remote_scripts, life>>
            ELSE /\ remote_scripts' =
                      Written(remote_scripts, remote_script(o), call[o].text)
                 /\ life' = [life EXCEPT ![o].nrun = @ + 1]
                 /\ ntmp' = [ntmp EXCEPT ![o] = @ + 1]
                 /\ local_tmp' = (local_tmp \ {call[o].tfh}) \cup {NewTmp(o)}
                 /\ call' = [call EXCEPT ![o] =
                      [c EXCEPT !.tmps = @ \cup {NewTmp(o)}, !.tfh = NewTmp(o),
                                !.text = out.text,
                                !.outcome = IF out.err = "" THEN @ ELSE out.err]]
                 /\ pc' = [pc EXCEPT ![o] =
                      IF out.err = "" THEN "sb_put_sub" ELSE "idle"]
    /\ UNCHANGED <<Setup, render_hist, run_kwds, caller_spec, job_spec, root_dir, ncalls, rd_hist,
                   got_ids, dirs, idmap_files>>

\* submit() going on to the Submitter although the transfer of the
\* submission script raised.
submit_put_submission_unchecked(o) ==
    /\ pc[o] = "sb_put_sub"
    /\ \E put_ok \in BOOLEAN :
         LET c == Logged(o, "put", submission_file(o))
         IN /\ call' = [call EXCEPT ![o] = c]
            /\ pc' = [pc EXCEPT ![o] = "sb_submitter"]
            /\ local_tmp' = local_tmp \ {call[o].tfh}
            /\ IF ~put_ok
               THEN UNCHANGED <<remote_scripts, life>>
               ELSE /\ remote_scripts' =
                         Written(remote_scripts, submission_file(o), call[o].text)
                    /\ life' = [life EXCEPT ![o].nsub = @ + 1, ![o].stage = Staged]
    /\ UNCHANGED <<Setup, render_hist, run_kwds, caller_spec, job_spec, root_dir, ncalls, rd_hist,
                   got_ids, ntmp, dirs, idmap_files>>

\* session.put(tfh.name, submission_file); os.unlink(tfh.name)
submit_put_submission(o) ==
    /\ pc[o] = "sb_put_sub"
    /\ \E put_ok \in BOOLEAN :
         LET c == Logged(o, "put", submission_file(o))
         IN IF ~put_ok
            THEN /\ call' = [call EXCEPT ![o] = [c EXCEPT !.outcome = ErrPut]]
                 /\ pc' = [pc EXCEPT ![o] = "idle"]
                 /\ UNCHANGED <<local_tmp, remote_scripts, life>>
            ELSE /\ remote_scripts' =
                      Written(remote_scripts, submission_file(o), call[o].text)
                 /\ life' = [life EXCEPT ![o].nsub = @ + 1, ![o].stage = Staged]
                 /\ local_tmp' = local_tmp \ {call[o].tfh}
                 /\ call' = [call EXCEPT ![o] = c]
                 /\ pc' = [pc EXCEPT ![o] = "sb_submitter"]
    /\ UNCHANGED <<Setup, render_hist, run_kwds, caller_spec, job_spec, root_dir, ncalls, rd_hist,
                   got_ids, ntmp, dirs, idmap_files>>

\* submit's last part without the `if subm_id is None` branch: whatever the
\* Submitter returned is echoed into idmap.
submit_submitter_writes_none(o) ==
    /\ pc[o] = "sb_submitter"
    /\ \E subm_id \in SubmitOutcomes :
         LET c == [Logged(o, "submitter.submit", submission_file(o)) EXCEPT
                     !.submitted = TRUE]
         IN IF subm_id = SubmitRaises
            THEN /\ call' = [call EXCEPT ![o] = [c EXCEPT !.outcome = ErrSubmitter,
                                                     !.subm_raised = TRUE]]
                 /\ pc' = [pc EXCEPT ![o] = "idle"]
                 /\ UNCHANGED <<got_ids, life>>
            ELSE /\ call' = [call EXCEPT ![o] = [c EXCEPT !.subm = subm_id]]
                 /\ pc' = [pc EXCEPT ![o] = "sb_idmap"]
                 /\ life' = [life EXCEPT ![o].stage = Submitted]
                 /\ got_ids' = [got_ids EXCEPT ![o] =
                      IF subm_id = None THEN @ ELSE @ \cup {subm_id}]
    /\ UNCHANGED <<Setup, render_hist, run_kwds, caller_spec, job_spec, root_dir, ncalls, rd_hist,
                   ntmp, local_tmp, Resource>>

\* submit() calling the Submitter a second time when the first call raised,
\* before giving up.
submit_submitter_retries(o) ==
    /\ pc[o] = "sb_submitter"
    /\ \E subm_id \in SubmitOutcomes :
         LET c == [Logged(o, "submitter.submit", submission_file(o)) EXCEPT
                     !.submitted = TRUE]
         IN IF subm_id = SubmitRaises
            THEN /\ call' = [call EXCEPT ![o] =
                      [c EXCEPT !.ops = Append(@, <<"submitter.submit",
                                                    submission_file(o)>>),
                                !.outcome = ErrSubmitter,
                                !.subm_raised = TRUE]]
                 /\ pc' = [pc EXCEPT ![o] = "idle"]
                 /\ UNCHANGED <<got_ids, life>>
            ELSE IF subm_id = None
            THEN /\ call' = [call EXCEPT ![o] = [c EXCEPT !.outcome = "ok"]]
                 /\ pc' = [pc EXCEPT ![o] = "idle"]
                 /\ life' = [life EXCEPT ![o].stage = Submitted,
                                         ![o].returned = TRUE]
                 /\ UNCHANGED got_ids
            ELSE /\ call' = [call EXCEPT ![o] = [c EXCEPT !.subm = subm_id]]
                 /\ pc' = [pc EXCEPT ![o] = "sb_idmap"]
                 /\ life' = [life EXCEPT ![o].stage = Submitted]
                 /\ got_ids' = [got_ids EXCEPT ![o] = @ \cup {subm_id}]
    /\ UNCHANGED <<Setup, render_hist, run_kwds, caller_spec, job_spec, root_dir, ncalls, rd_hist,
                   ntmp, local_tmp, Resource>>

\* subm_id = self.submitter.submit(submission_file) and the test of subm_id.
submit_submitter(o) ==
    /\ pc[o] = "sb_submitter"
    /\ \E subm_id \in SubmitOutcomes :
         LET c == [Logged(o, "submitter.submit", submission_file(o)) EXCEPT
                     !.submitted = TRUE]
         IN IF subm_id = SubmitRaises
            THEN /\ call' = [call EXCEPT ![o] = [c EXCEPT !.outcome = ErrSubmitter,
                                                     !.subm_raised = TRUE]]
                 /\ pc' = [pc EXCEPT ![o] = "idle"]
                 /\ UNCHANGED <<got_ids, life>>
            ELSE IF subm_id = None
            THEN /\ call' = [call EXCEPT ![o] = [c EXCEPT !.outcome = "ok"]]
                 /\ pc' = [pc EXCEPT ![o] = "idle"]
                 /\ life' = [life EXCEPT ![o].stage = Submitted,
                                         ![o].returned = TRUE]
                 /\ UNCHANGED got_ids
            ELSE /\ call' = [call EXCEPT ![o] = [c EXCEPT !.subm = subm_id]]
                 /\ pc' = [pc EXCEPT ![o] = "sb_idmap"]
                 /\ life' = [life EXCEPT ![o].stage = Submitted]
                 /\ got_ids' = [got_ids EXCEPT ![o] = @ \cup {subm_id}]
    /\ UNCHANGED <<Setup, render_hist, run_kwds, caller_spec, job_spec, root_dir, ncalls, rd_hist,
                   ntmp, local_tmp, Resource>>

\* session.execute_command("echo {} >{}".format(subm_id, .../idmap))
submit_idmap(o) ==
    /\ pc[o] = "sb_idmap"
    /\ idmap_files' = Written(idmap_files, idmap_path(o), <<call[o].subm>>)
    /\ call' = [call EXCEPT ![o] =
         [Logged(o, echo_idmap(o)[1], echo_idmap(o)[2]) EXCEPT !.outcome = "ok"]]
    /\ pc' = [pc EXCEPT ![o] = "idle"]
    /\ life' = [life EXCEPT ![o].nidmap = @ + 1, ![o].returned = TRUE]
    /\ UNCHANGED <<Setup, render_hist, run_kwds, caller_spec, job_spec, root_dir, ncalls, rd_hist,
                   got_ids, ntmp, local_tmp, dirs, remote_scripts>>

\* -------------------------------------------------------------- follow

\* The `outputs` arguments a caller passes to follow.
OutputLists == {<<>>, <<"out.txt">>}

\* op.join(self.root_directory, "outputs", "{}.tar.gz".format(self.jobid))
remote_tfile(o, root) == Join(root, <<"outputs", jobid[o] \o ".tar.gz">>)

\* follow(outputs) is called: nothing is evaluated before submitter.follow().
follow_begin(o) ==
    /\ MayCall(o, "follow")
    /\ \E outputs \in OutputLists :
         call' = [call EXCEPT ![o] =
            [NoCall EXCEPT !.op = "follow", !.outcome = "running",
                           !.outputs = outputs]]
    /\ pc' = [pc EXCEPT ![o] = "fl_wait"]
    /\ Began(o)
    /\ UNCHANGED <<Setup, render_hist, life, run_kwds, caller_spec, job_spec, root_dir,
                   rd_hist, got_ids, ntmp, local_tmp, Resource>>

\* follow's first statements in the order the Datalad classes have them not:
\* retrieval starts without waiting for the Submitter.
follow_wait_skipped(o) ==
    /\ pc[o] = "fl_wait"
    /\ call' = [call EXCEPT ![o].waited = FALSE]
    /\ pc' = [pc EXCEPT ![o] = "fl_retrieve"]
    /\ UNCHANGED <<Setup, render_hist, life, run_kwds, caller_spec, job_spec, root_dir, ncalls,
                   rd_hist, got_ids, ntmp, local_tmp, Resource>>

\* self.submitter.follow(): returns when the job is in a terminal state, or
\* raises.
follow_wait(o) ==
    /\ pc[o] = "fl_wait"
    /\ \E returns \in BOOLEAN :
         /\ call' = [call EXCEPT ![o] =
              [Logged(o, "submitter.follow", <<>>) EXCEPT
                 !.waited = returns,
                 !.outcome = IF returns THEN @ ELSE ErrFollow]]
         /\ pc' = [pc EXCEPT ![o] = IF returns THEN "fl_retrieve" ELSE "idle"]
    /\ UNCHANGED <<Setup, render_hist, life, run_kwds, caller_spec, job_spec, root_dir, ncalls,
                   rd_hist, got_ids, ntmp, local_tmp, Resource>>

\* Whether follow's branch on resource.type evaluates self.working_directory
\* (and so self.root_directory): the shell branch of DataladPairOrchestrator,
\* the else branch of DataladRunOrchestrator.
follow_reads_root(o) ==
    IF klass[o] = "datalad-pair" THEN rtype = "shell" ELSE rtype # "ssh"

\* follow returns without error.
follow_return(o) ==
    /\ pc' = [pc EXCEPT ![o] = "idle"]
    /\ life' = [life EXCEPT ![o].stage = Followed]

\* follow evaluates self.root_directory where nothing has resolved it yet:
\* as the argument of git fetch, or in remote_tfile.
follow_resolve_root(o) ==
    /\ root_dir[o] = None
    /\ \/ pc[o] = "fl_retrieve" /\ follow_reads_root(o)
       \/ pc[o] = "fl_exists"
    /\ \E ans \in PwdAnswers :
         LET r == root_directory(o, ans)
         IN /\ ReadEffects(o, r)
            /\ call' = [call EXCEPT ![o] =
                 [@ EXCEPT !.ops = IF r.queried THEN Append(@, PwdQuery) ELSE @,
                           !.uncached = r.uncached, !.popped = r.popped,
                           !.pwd = r.pwd,
                           !.outcome = IF r.err # "" THEN r.err ELSE @]]
            /\ pc' = [pc EXCEPT ![o] =
                 IF r.err # "" THEN "idle"
                 ELSE IF pc[o] = "fl_retrieve" THEN "fl_fetch" ELSE "fl_tfile"]
    /\ UNCHANGED <<Setup, render_hist, life, run_kwds, ncalls, got_ids, ntmp, local_tmp, Resource>>

\* The first statement of the branch on resource.type where it does not
\* evaluate working_directory: ds.update for DataladPairOrchestrator on ssh,
\* ds.repo.fetch for DataladRunOrchestrator on ssh, nothing for
\* DataladPairOrchestrator on another type.
follow_retrieve(o) ==
    /\ pc[o] = "fl_retrieve"
    /\ ~follow_reads_root(o)
    /\ IF rtype # "ssh"
       THEN /\ call' = [call EXCEPT ![o].outcome = "ok"]
            /\ follow_return(o)
       ELSE IF klass[o] = "datalad-pair"
       THEN /\ call' = [call EXCEPT ![o] =
                 [Logged(o, "datalad.update", <<ResourceName>>) EXCEPT
                    !.outcome = IF call[o].outputs # <<>> THEN @ ELSE "ok"]]
            /\ IF call[o].outputs # <<>>
               THEN /\ pc' = [pc EXCEPT ![o] = "fl_get_outputs"]
                    /\ UNCHANGED life
               ELSE follow_return(o)
       ELSE /\ call' = [call EXCEPT ![o] =
                 Logged(o, "datalad.fetch", <<ResourceName>>)]
            /\ pc' = [pc EXCEPT ![o] = "fl_exists"]
            /\ UNCHANGED life
    /\ UNCHANGED <<Setup, render_hist, run_kwds, caller_spec, job_spec, root_dir, ncalls,
                   rd_hist, got_ids, ntmp, local_tmp, Resource>>

\* self.ds.get(path=outputs)
follow_get_outputs(o) ==
    /\ pc[o] = "fl_get_outputs"
    /\ call' = [call EXCEPT ![o] =
         [Logged(o, "datalad.get", call[o].outputs) EXCEPT !.outcome = "ok"]]
    /\ follow_return(o)
    /\ UNCHANGED <<Setup, render_hist, run_kwds, caller_spec, job_spec, root_dir, ncalls,
                   rd_hist, got_ids, ntmp, local_tmp, Resource>>

\* session.execute_command(["git", "fetch", self.working_directory, ...])
follow_git_fetch(o) ==
    /\ \/ pc[o] = "fl_fetch"
       \/ pc[o] = "fl_retrieve" /\ follow_reads_root(o) /\ root_dir[o] # None
    /\ call' = [call EXCEPT ![o] =
         Logged(o, "execute_command",
                <<"git", "fetch">> \o working_directory(Root(o)))]
    /\ pc' = [pc EXCEPT ![o] =
         IF klass[o] = "datalad-pair" THEN "fl_merge" ELSE "fl_exists"]
    /\ UNCHANGED <<Setup, render_hist, life, run_kwds, caller_spec, job_spec, root_dir, ncalls,
                   rd_hist, got_ids, ntmp, local_tmp, Resource>>

\* session.execute_command(["git", "merge", "FETCH_HEAD"])
follow_git_merge(o) ==
    /\ pc[o] = "fl_merge"
    /\ call' = [call EXCEPT ![o] =
         [Logged(o, "execute_command", <<"git", "merge", "FETCH_HEAD">>) EXCEPT
            !.outcome = "ok"]]
    /\ follow_return(o)
    /\ UNCHANGED <<Setup, render_hist, run_kwds, caller_spec, job_spec, root_dir, ncalls,
                   rd_hist, got_ids, ntmp, local_tmp, Resource>>

\* DataladRunOrchestrator.follow is at session.exists(remote_tfile) with
\* root_directory resolved.
follow_at_exists(o) ==
    \/ pc[o] = "fl_tfile"
    \/ pc[o] = "fl_exists" /\ root_dir[o] # None

\* DataladRunOrchestrator.follow with a retry in place of the `return` under
\* `if not self.session.exists(remote_tfile)`: it waits for the Submitter
\* again and looks for the bundle once more.
follow_exists_bundle_retries(o) ==
    /\ follow_at_exists(o)
    /\ \E present \in BOOLEAN :
         /\ call' = [call EXCEPT ![o] =
              IF present
              THEN [Logged(o, "exists", remote_tfile(o, Root(o))) EXCEPT
                      !.bundle = "present"]
              ELSE [NoCall EXCEPT !.op = "follow", !.outcome = "running",
                                  !.outputs = call[o].outputs]]
         /\ pc' = [pc EXCEPT ![o] = IF present THEN "fl_get" ELSE "fl_wait"]
    /\ UNCHANGED <<Setup, render_hist, life, run_kwds, caller_spec, job_spec, root_dir, ncalls,
                   rd_hist, got_ids, ntmp, local_tmp, Resource>>

\* DataladRunOrchestrator.follow without the `return` under
\* `if not self.session.exists(remote_tfile)`: it goes on to session.get.
follow_exists_bundle_no_return(o) ==
    /\ follow_at_exists(o)
    /\ \E present \in BOOLEAN :
         call' = [call EXCEPT ![o] =
            [Logged(o, "exists", remote_tfile(o, Root(o))) EXCEPT
               !.bundle = IF present THEN "present" ELSE "absent"]]
    /\ pc' = [pc EXCEPT ![o] = "fl_get"]
    /\ UNCHANGED <<Setup, render_hist, life, run_kwds, caller_spec, job_spec, root_dir, ncalls,
                   rd_hist, got_ids, ntmp, local_tmp, Resource>>

\* session.exists(remote_tfile); when it is absent the condition is logged
\* and follow returns.
follow_exists_bundle(o) ==
    /\ follow_at_exists(o)
    /\ \E present \in BOOLEAN :
         /\ call' = [call EXCEPT ![o] =
              [Logged(o, "exists", remote_tfile(o, Root(o))) EXCEPT
                 !.bundle = IF present THEN "present" ELSE "absent",
                 !.outcome = IF present THEN @ ELSE "ok"]]
         /\ IF present
            THEN /\ pc' = [pc EXCEPT ![o] = "fl_get"]
                 /\ UNCHANGED life
            ELSE follow_return(o)
    /\ UNCHANGED <<Setup, render_hist, run_kwds, caller_spec, job_spec, root_dir, ncalls,
                   rd_hist, got_ids, ntmp, local_tmp, Resource>>

\* session.get(op.join(self.root_directory, "outputs", tfile))
follow_get_bundle(o) ==
    /\ pc[o] = "fl_get"
    /\ call' = [call EXCEPT ![o] = Logged(o, "get", remote_tfile(o, Root(o)))]
    /\ pc' = [pc EXCEPT ![o] = "fl_extract"]
    /\ UNCHANGED <<Setup, render_hist, life, run_kwds, caller_spec, job_spec, root_dir, ncalls,
                   rd_hist, got_ids, ntmp, local_tmp, Resource>>

\* tar.extractall(path=".") on the local copy of the bundle
follow_extract_bundle(o) ==
    /\ pc[o] = "fl_extract"
    /\ call' = [call EXCEPT ![o] =
         Logged(o, "tar.extractall", <<jobid[o] \o ".tar.gz">>)]
    /\ pc' = [pc EXCEPT ![o] = "fl_unlink"]
    /\ UNCHANGED <<Setup, render_hist, life, run_kwds, caller_spec, job_spec, root_dir, ncalls,
                   rd_hist, got_ids, ntmp, local_tmp, Resource>>

\* os.unlink(tfile)
follow_unlink_bundle(o) ==
    /\ pc[o] = "fl_unlink"
    /\ call' = [call EXCEPT ![o] =
         Logged(o, "os.unlink", <<jobid[o] \o ".tar.gz">>)]
    /\ pc' = [pc EXCEPT ![o] = "fl_run"]
    /\ UNCHANGED <<Setup, render_hist, life, run_kwds, caller_spec, job_spec, root_dir, ncalls,
                   rd_hist, got_ids, ntmp, local_tmp, Resource>>

\* run_command(outputs=outputs, ..., cmd=self.job_spec["command_str"],
\* **self.run_kwds); the lookup of "command_str" comes first.
follow_run_command(o) ==
    /\ pc[o] = "fl_run"
    /\ IF "command_str" \in Keys(job_spec[o])
       THEN /\ call' = [call EXCEPT ![o] =
                 [Logged(o, "run_command", call[o].outputs) EXCEPT
                    !.outcome = "ok"]]
            /\ follow_return(o)
       ELSE /\ call' = [call EXCEPT ![o].outcome = ErrKey]
            /\ pc' = [pc EXCEPT ![o] = "idle"]
            /\ UNCHANGED life
    /\ UNCHANGED <<Setup, render_hist, run_kwds, caller_spec, job_spec, root_dir, ncalls,
                   rd_hist, got_ids, ntmp, local_tmp, Resource>>

\* ---------------------------------------------------- specifications

\* What one instance can do next, whoever drives it.
Step(o) ==
    \/ Construct(o)
    \/ prepare_remote_begin(o)
    \/ prepare_remote_exists_root(o)
    \/ prepare_remote_mkdir_root(o)
    \/ prepare_remote_stage(o)
    \/ prepare_remote_create(o)
    \/ prepare_remote_transfer(o)
    \/ prepare_remote_exists_meta(o)
    \/ prepare_remote_mkdir_meta(o)
    \/ submit_begin(o)
    \/ submit_put_runscript(o)
    \/ submit_put_submission(o)
    \/ submit_submitter(o)
    \/ submit_idmap(o)

\* The steps of a follow() on an instance whose root_directory an earlier
\* call has resolved.
FollowResolved(o) ==
    \/ follow_begin(o)
    \/ follow_wait(o)
    \/ follow_retrieve(o)
    \/ follow_get_outputs(o)
    \/ follow_git_fetch(o)
    \/ follow_git_merge(o)
    \/ follow_exists_bundle(o)
    \/ follow_get_bundle(o)
    \/ follow_extract_bundle(o)
    \/ follow_unlink_bundle(o)
    \/ follow_run_command(o)

\* The steps of follow.
Follow(o) ==
    \/ FollowResolved(o)
    \/ follow_resolve_root(o)

Next ==
    \E o \in Orchs :
        \/ Step(o)
        \/ Follow(o)
        \/ ReadRootDirectory(o)
        \/ ReadWorkingDirectory(o)
        \/ ReadMetaDirectory(o)
        \/ render_runscript(o)
        \/ render_submission(o)

\* One instance whose caller calls its operations in any order.
Spec == Init /\ [][Next]_vars

NextPair == \E o \in Orchs : Step(o)

\* Two instances sharing one resource, each prepared and submitted in
\* pipeline order.
SpecPair == InitPair /\ [][NextPair]_vars

NextRun == \E o \in Orchs : Step(o) \/ FollowResolved(o)

\* One instance run through the pipeline: prepare_remote, submit, follow.
SpecRun == InitRun /\ [][NextRun]_vars

\* A follow() that has started runs on: the Submitter's follow() returns or
\* raises, and every Session and datalad operation it then makes returns.
FollowRuns(o) ==
    \/ follow_wait(o)
    \/ follow_retrieve(o)
    \/ follow_get_outputs(o)
    \/ follow_git_fetch(o)
    \/ follow_git_merge(o)
    \/ follow_exists_bundle(o)
    \/ follow_get_bundle(o)
    \/ follow_extract_bundle(o)
    \/ follow_unlink_bundle(o)
    \/ follow_run_command(o)

\* SpecRun with a Submitter and a Session whose operations all terminate.
SpecFollow ==
    InitRun /\ [][NextRun]_vars /\ \A o \in Orchs : WF_vars(FollowRuns(o))

\* Everything of the orchestrators.
Orchestration ==
    <<driver, live, templates, rtype, pc, jobid, given_spec, caller_spec,
      job_spec, root_dir, ncalls, call, rd_hist, got_ids, ntmp, local_tmp,
      dirs, remote_scripts, idmap_files, klass, run_kwds, life, render_hist>>

\* A list of files to identify on some system, no orchestrator in play.
InitSearch ==
    /\ driver = "pipeline" /\ live = {}
    /\ templates = [runscript |-> NoTemplate, submission |-> NoTemplate]
    /\ rtype = "shell"
    /\ pc = [o \in Orchs |-> "new"]
    /\ jobid = [o \in Orchs |-> ""]
    /\ given_spec = [o \in Orchs |-> {}]
    /\ caller_spec = [o \in Orchs |-> {}]
    /\ job_spec = [o \in Orchs |-> {}]
    /\ root_dir = [o \in Orchs |-> None]
    /\ ncalls = [o \in Orchs |-> 0]
    /\ call = [o \in Orchs |-> NoCall]
    /\ rd_hist = [o \in Orchs |-> NoHist]
    /\ got_ids = [o \in Orchs |-> {}]
    /\ ntmp = [o \in Orchs |-> 0]
    /\ local_tmp = {}
    /\ dirs = Ancestors(Pwd)
    /\ remote_scripts = {}
    /\ idmap_files = {}
    /\ klass = [o \in Orchs |-> ""]
    /\ run_kwds = [o \in Orchs |-> {}]
    /\ life = [o \in Orchs |-> NoLife]
    /\ render_hist = [o \in Orchs |-> NoRenderings]
    /\ \E files \in FileLists, system \in Systems :
         retrace = [NoRetrace EXCEPT !.files = files, !.system = system]

\* manager.search_for_files(files)
SearchForFiles ==
    /\ ~retrace.called
    /\ LET res == search_for_files(retrace.system, retrace.files)
       IN retrace' = [retrace EXCEPT !.called = TRUE,
                                     !.raised = res.raised,
                                     !.returned = res.value]
    /\ UNCHANGED Orchestration

\* One search_for_files call on any list of files and any system.
SpecSearch == InitSearch /\ [][SearchForFiles]_vars

\* ------------------------------------------------------------ properties

\* Instance o's caller has a finished call of `opname` in hand.
Finished(o, opname) ==
    pc[o] = "idle" /\ call[o].op = opname /\ call[o].outcome # "running"

\* The operations of the current call of o with this name.
OpsNamed(o, opname) ==
    {i \in DOMAIN call[o].ops : call[o].ops[i][1] = opname}

SessionOpNames == {"execute_command", "exists", "mkdir", "put", "get"}

SessionOps(o) ==
    {i \in DOMAIN call[o].ops : call[o].ops[i][1] \in SessionOpNames}

\* The current call of o has echoed an identifier into idmap.
WroteIdmap(o) ==
    \E i \in DOMAIN call[o].ops :
        call[o].ops[i][1] = "execute_command" /\ call[o].ops[i] # PwdQuery

TemplateVars == {"jobid", "root_directory", "remote_directory", "meta_directory"}

\* The job spec o was given lacks a field the runscript template references.
LacksField(o) ==
    /\ templates.runscript.exists
    /\ ~(templates.runscript.refs \subseteq TemplateVars \cup Keys(given_spec[o]))

\* C1: whenever a submit() call has returned or raised, none of the temporary
\* files it created is left on the caller's host.
C1_TmpFilesDeleted ==
    \A o \in Orchs :
        Finished(o, "submit") => call[o].tmps \cap local_tmp = {}

\* C2: the dict the caller passed to the constructor keeps the keys and
\* values it had when it was passed.
C2_CallerSpecUnchanged ==
    \A o \in Orchs : caller_spec[o] = given_spec[o]

\* C3: a submit() call that fails on a template (missing template or
\* undefined variable, for either script) has put nothing on the resource,
\* has not invoked the Submitter and has written no idmap.
C3_TemplateFailureNoRemoteState ==
    \A o \in Orchs :
        (Finished(o, "submit") /\ call[o].outcome \in {ErrNoTemplate, ErrUndefined})
        => /\ OpsNamed(o, "put") = {}
           /\ ~call[o].submitted
           /\ ~WroteIdmap(o)

\* C4 as claimed: with a job spec lacking a field of the runscript template,
\* render_runscript raises the undefined-variable error, and a submit() that
\* raises it has made no session.put.
C4_Original ==
    \A o \in Orchs :
        /\ (Finished(o, "render_runscript") /\ LacksField(o))
           => call[o].outcome = ErrUndefined
        /\ (Finished(o, "submit") /\ LacksField(o) /\ call[o].outcome = ErrUndefined)
           => OpsNamed(o, "put") = {}

\* C4: with a job spec lacking a field of the runscript template,
\* render_runscript raises the undefined-variable error unless resolving
\* root_directory fails first, when that error is raised; and a submit() on
\* such a job spec always raises, one of these errors, before any session.put.
C4_UndefinedBeforePut ==
    \A o \in Orchs :
        /\ (Finished(o, "render_runscript") /\ LacksField(o))
           => /\ call[o].outcome \in {ErrUndefined, ErrPwd, ErrNotAbs}
              /\ call[o].outcome = ErrUndefined <=> root_dir[o] # None
        /\ (call[o].op = "submit" /\ LacksField(o))
           => /\ pc[o] = "idle"
              /\ call[o].outcome \in {ErrUndefined, ErrPwd, ErrNotAbs}
              /\ call[o].outcome = ErrUndefined <=> root_dir[o] # None
              /\ OpsNamed(o, "put") = {}

C4_Witness ==
    \E o \in Orchs :
        /\ Finished(o, "submit") /\ LacksField(o)
        /\ call[o].outcome = ErrUndefined
        /\ call[o].tmps # {}

\* C5: a finished submit() has written idmap exactly when the Submitter
\* returned an identifier, and idmap then holds that identifier alone; when
\* the Submitter returned None the call returned normally and wrote no idmap.
C5_IdmapIffIdentifier ==
    \A o \in Orchs :
        Finished(o, "submit")
        => /\ WroteIdmap(o) <=> call[o].subm # None
           /\ WroteIdmap(o) =>
                /\ call[o].subm \in SubmIds
                /\ <<idmap_path(o), <<call[o].subm>> >> \in idmap_files
                /\ call[o].outcome = "ok"
           /\ (call[o].submitted /\ call[o].subm = None
               /\ call[o].outcome # ErrSubmitter)
              => call[o].outcome = "ok" /\ ~WroteIdmap(o)

C5_Witness ==
    \E o \in Orchs :
        /\ Finished(o, "submit") /\ call[o].outcome = "ok"
        /\ call[o].subm \in SubmIds
        /\ ncalls[o] = 1

\* C6: two instances with distinct job ids have distinct meta directories,
\* and the idmap in an instance's meta directory holds one identifier, one
\* that the Submitter returned to that instance.
C6_NoCrossContamination ==
    \A a \in Orchs : \A b \in Orchs \ {a} :
        (pc[a] # "new" /\ pc[b] # "new" /\ jobid[a] # jobid[b]
         /\ root_dir[a] # None /\ root_dir[b] # None)
        => /\ meta_directory(a, Root(a)) # meta_directory(b, Root(b))
           /\ \A f \in idmap_files :
                f[1] = idmap_path(a) => f[2] \in {<<i>> : i \in got_ids[a]}

C6_Witness ==
    \E a \in Orchs : \E b \in Orchs \ {a} :
        /\ jobid[a] # jobid[b]
        /\ Root(a) = Root(b)
        /\ Finished(a, "submit") /\ Finished(b, "submit")
        /\ got_ids[a] # {} /\ got_ids[b] # {} /\ got_ids[a] # got_ids[b]
        /\ idmap_path(a) \in {f[1] : f \in idmap_files}
        /\ idmap_path(b) \in {f[1] : f \in idmap_files}

\* C7: all successful reads of root_directory on one instance return one and
\* the same path, and together they query the resource for PWD at most once.
C7_RootDirectoryMemoized ==
    \A o \in Orchs :
        /\ Cardinality(rd_hist[o].values) <= 1
        /\ rd_hist[o].okq <= 1

C7_Witness ==
    \E o \in Orchs : rd_hist[o].nok >= 2 /\ rd_hist[o].okq = 1

\* C8 as claimed: a read of root_directory that finds an override that is
\* not an absolute path fails with the not-absolute error, and the failing
\* call has performed no Session operation.
C8_Original ==
    \A o \in Orchs :
        (call[o].uncached /\ call[o].popped # None /\ ~IsAbs(call[o].popped))
        => /\ call[o].outcome = ErrNotAbs
           /\ SessionOps(o) = {}

\* C8: a read of root_directory that finds a non-empty override that is not
\* an absolute path fails with the not-absolute error, and the failing call,
\* prepare_remote included, has performed no Session operation. (An empty
\* override counts as no override.)
C8_RelativeOverrideFails ==
    \A o \in Orchs :
        (call[o].uncached /\ ~Falsy(call[o].popped) /\ ~IsAbs(call[o].popped))
        => /\ pc[o] = "idle"
           /\ call[o].outcome = ErrNotAbs
           /\ SessionOps(o) = {}
           /\ root_dir[o] = None

C8_Witness ==
    \E o \in Orchs :
        /\ Finished(o, "prepare_remote")
        /\ call[o].popped = RelOverride
        /\ call[o].outcome = ErrNotAbs

\* C9: on an instance given an absolute override, every read of
\* root_directory succeeds and returns the override itself, and no read, the
\* first or a later one, queries the resource for PWD.
C9_AbsoluteOverrideVerbatim ==
    \A o \in Orchs :
        IsAbs(Get(given_spec[o], "root_directory"))
        => /\ rd_hist[o].values \subseteq {Get(given_spec[o], "root_directory")}
           /\ rd_hist[o].nok = rd_hist[o].n
           /\ rd_hist[o].allq = 0
           /\ OpsNamed(o, "execute_command") \subseteq
                {i \in DOMAIN call[o].ops : call[o].ops[i] # PwdQuery}

C9_Witness ==
    \E o \in Orchs :
        /\ IsAbs(Get(given_spec[o], "root_directory"))
        /\ rd_hist[o].nok >= 2
        /\ rd_hist[o].values = {AbsOverride}

\* C10: a read of root_directory with no override whose PWD query answers
\* nothing fails with the could-not-determine-PWD error, leaves no root
\* directory cached, and has queried the resource exactly once.
C10_EmptyPwdFails ==
    \A o \in Orchs :
        (call[o].uncached /\ call[o].popped = None /\ call[o].pwd = <<>>)
        => /\ pc[o] = "idle"
           /\ call[o].outcome = ErrPwd
           /\ root_dir[o] = None
           /\ Cardinality(SessionOps(o)) = 1
           /\ \A i \in SessionOps(o) : call[o].ops[i] = PwdQuery

C10_Witness ==
    \E o \in Orchs :
        /\ Finished(o, "prepare_remote")
        /\ call[o].popped = None
        /\ call[o].outcome = ErrPwd


\* C11: once an instance has its jobid it keeps it; once root_directory has
\* been resolved the instance keeps that value, and with it working_directory
\* and meta_directory; every later read of root_directory, working_directory
\* or meta_directory returns the value held, so all values observed are the
\* first one.
C11_PathsFixed ==
    [][\A o \in Orchs :
         /\ jobid[o] # "" => jobid'[o] = jobid[o]
         /\ root_dir[o] # None =>
              /\ root_dir'[o] = root_dir[o]
              /\ working_directory(root_dir'[o]) = working_directory(root_dir[o])
              /\ meta_directory(o, root_dir[o])' = meta_directory(o, root_dir[o])
              /\ (call'[o].op = "root_directory" /\ ncalls'[o] # ncalls[o])
                 => call'[o].value = root_dir[o]
              /\ (call'[o].op = "working_directory" /\ ncalls'[o] # ncalls[o])
                 => call'[o].value = working_directory(root_dir[o])
              /\ (call'[o].op = "meta_directory" /\ ncalls'[o] # ncalls[o])
                 => call'[o].value = meta_directory(o, root_dir[o])
         /\ rd_hist'[o].values \subseteq {root_dir'[o]}
      ]_vars

\* A second read of meta_directory has returned, after a follow.
C11_Witness ==
    \E o \in Orchs :
        /\ Finished(o, "meta_directory") /\ call[o].outcome = "ok"
        /\ ~call[o].uncached
        /\ life[o].stage = Followed


\* A step in which the caller reads o's meta_directory.
MetaRead(o) == call'[o].op = "meta_directory" /\ ncalls'[o] = ncalls[o] + 1

\* What a read may not touch: the instance's attributes, the caller's dict
\* and the resource.
Untouched(o) ==
    /\ root_dir'[o] = root_dir[o]
    /\ job_spec'[o] = job_spec[o]
    /\ caller_spec'[o] = caller_spec[o]
    /\ jobid'[o] = jobid[o]
    /\ run_kwds'[o] = run_kwds[o]
    /\ Resource' = Resource

\* C12 as claimed: in every state of an instance, a read of meta_directory
\* performs no Session operation and changes neither the instance nor the
\* job spec.
C12_Original ==
    [][\A o \in Orchs :
         MetaRead(o) => (SessionOps(o)' = {} /\ Untouched(o))]_vars

\* C12: once root_directory has been resolved, a read of meta_directory
\* performs no Session operation and changes neither the instance nor the
\* job spec; before that the read resolves root_directory, which at most
\* queries PWD once, takes the override out of the job spec and, when it
\* succeeds, keeps the value, and leaves the resource as it was.
C12_MetaReadPureOnceResolved ==
    [][\A o \in Orchs :
         MetaRead(o) =>
            IF root_dir[o] # None
            THEN SessionOps(o)' = {} /\ Untouched(o)
            ELSE /\ call'[o].ops \in {<<>>, <<PwdQuery>>}
                 /\ job_spec'[o] = Without(job_spec[o], "root_directory")
                 /\ root_dir'[o] # None =>
                      call'[o].value = meta_directory(o, root_dir'[o])
                 /\ jobid'[o] = jobid[o] /\ run_kwds'[o] = run_kwds[o]
                 /\ Resource' = Resource
      ]_vars

\* A read of meta_directory on an instance whose root_directory was resolved
\* by an earlier call has returned.
C12_Witness ==
    \E o \in Orchs :
        /\ Finished(o, "meta_directory") /\ call[o].outcome = "ok"
        /\ ~call[o].uncached
        /\ life[o].stage = Created


\* The last operation the current call of o has logged.
LastOp(o) == call[o].ops[Len(call[o].ops)]

\* C13: a prepare_remote that returned without error leaves root_directory
\* in existence; mkdir is called on root_directory only right after
\* session.exists reported it absent; and the prepare_remote calls made one
\* after another on an instance make root_directory at most once.
C13_PrepareRemoteIdempotent ==
    /\ [](\A o \in Orchs :
            /\ (Finished(o, "prepare_remote") /\ call[o].outcome = "ok")
               => Root(o) \in dirs
            /\ pc[o] = "pr_mkdir_root"
               => (LastOp(o) = <<"exists", Root(o)>> /\ Root(o) \notin dirs)
            /\ life[o].mkroot <= 1)
    /\ [][\A o \in Orchs :
            life'[o].mkroot # life[o].mkroot
            => (pc[o] = "pr_mkdir_root" /\ LastOp(o)' = <<"mkdir", Root(o)>>)]_vars

\* A later prepare_remote has returned without making the root directory an
\* earlier one made.
C13_Witness ==
    \E o \in Orchs :
        /\ Finished(o, "prepare_remote") /\ call[o].outcome = "ok"
        /\ life[o].mkroot = 1
        /\ \A i \in OpsNamed(o, "mkdir") : call[o].ops[i][2] # Root(o)
        /\ \E i \in OpsNamed(o, "exists") : call[o].ops[i][2] = Root(o)


\* The directory a path lies in.

\* C14: when prepare_remote of either Datalad class has returned without
\* error, meta_directory exists on the resource (and DataladRunOrchestrator
\* holds the inputs); from then on every transfer a submit() makes, of
\* runscript or of submit, goes into a directory that exists.
C14_MetaDirectoryPrepared ==
    /\ [](\A o \in Orchs :
            /\ (Finished(o, "prepare_remote") /\ call[o].outcome = "ok")
               => /\ meta_directory(o, Root(o)) \in dirs
                  /\ klass[o] = "datalad-run"
                     => Get(run_kwds[o], "inputs") = call[o].inputs
            /\ (life[o].prepared /\ call[o].op = "submit")
               => \A i \in OpsNamed(o, "put") :
                     /\ Dirname(call[o].ops[i][2]) = meta_directory(o, Root(o))
                     /\ Dirname(call[o].ops[i][2]) \in dirs)
    /\ [][\A o \in Orchs :
            (life[o].prepared /\ remote_scripts' # remote_scripts
             /\ pc[o] \in {"sb_put_run", "sb_put_sub"})
            => meta_directory(o, Root(o)) \in dirs]_vars

\* A DataladRunOrchestrator has transferred both scripts in a submit() made
\* after its prepare_remote returned without error.
C14_Witness ==
    \E o \in Orchs :
        /\ klass[o] = "datalad-run"
        /\ life[o].prepared
        /\ Finished(o, "submit") /\ call[o].outcome = "ok"
        /\ Cardinality(OpsNamed(o, "put")) = 2


\* The operations of o's current call after the PWD query, if it made one.
AfterQuery(o) ==
    IF call[o].ops # <<>> /\ call[o].ops[1] = PwdQuery
    THEN SubSeq(call[o].ops, 2, Len(call[o].ops))
    ELSE call[o].ops

\* The operations of a submit() that goes all the way, in order.
SubmitOrder(o) ==
    << <<"put", remote_script(o)>>,
       <<"put", submission_file(o)>>,
       <<"submitter.submit", submission_file(o)>>,
       echo_idmap(o) >>

\* The files at `path` on the resource.
FilesAt(files, path) == {f \in files : f[1] = path}

\* C15: the operations of a submit() call are, in order, the transfer of
\* runscript, the transfer of submit, one invocation of the Submitter on
\* meta_directory/submit and the writing of idmap, up to where the call has
\* got or stopped; idmap is written only when an identifier was returned,
\* and the Submitter is invoked only while no error has occurred and both
\* files are on the resource.
C15_SubmitOrder ==
    /\ [](\A o \in Orchs :
            call[o].op = "submit" =>
               LET n == Len(AfterQuery(o))
               IN /\ n <= 4
                  /\ AfterQuery(o) = SubSeq(SubmitOrder(o), 1, n)
                  /\ call[o].submitted <=> n >= 3
                  /\ n = 4 => call[o].subm \in SubmIds
                  /\ n >= 3 =>
                        /\ FilesAt(remote_scripts, remote_script(o)) # {}
                        /\ FilesAt(remote_scripts, submission_file(o)) # {})
    /\ [][\A o \in Orchs :
            (call'[o].submitted /\ ~call[o].submitted)
            => /\ pc[o] = "sb_submitter"
               /\ call[o].outcome = "running"
               /\ Len(AfterQuery(o)) = 2]_vars

\* A submit() has gone all the way to the writing of idmap.
C15_Witness ==
    \E o \in Orchs :
        /\ Finished(o, "submit") /\ call[o].outcome = "ok"
        /\ AfterQuery(o) = SubmitOrder(o)


\* C16: when the Submitter raises, submit() ends with that error, the
\* instance is STAGED with runscript and submit on the resource, the call
\* has written no idmap, and it has invoked the Submitter exactly once.
C16_SubmitterFailure ==
    \A o \in Orchs :
        (call[o].op = "submit" /\ call[o].subm_raised)
        => /\ Finished(o, "submit")
           /\ call[o].outcome = ErrSubmitter
           /\ life[o].stage = Staged
           /\ FilesAt(remote_scripts, remote_script(o)) # {}
           /\ FilesAt(remote_scripts, submission_file(o)) # {}
           /\ ~WroteIdmap(o)
           /\ Cardinality(OpsNamed(o, "submitter.submit")) = 1

\* The Submitter has raised in a submit().
C16_Witness ==
    \E o \in Orchs :
        /\ Finished(o, "submit")
        /\ call[o].subm_raised
        /\ call[o].outcome = ErrSubmitter


\* C17: in a follow() of either class the first operation is
\* submitter.follow(); the fetch, update or get, the existence check of the
\* bundle, its retrieval and the run record come only after it has returned,
\* and when it raises follow() ends with that error having done nothing
\* else, root_directory not even read.
C17_RetrievalAfterWait ==
    /\ [](\A o \in Orchs :
            call[o].op = "follow" =>
               /\ call[o].ops # <<>> => call[o].ops[1] = <<"submitter.follow", <<>>>>
               /\ Cardinality(OpsNamed(o, "submitter.follow")) <= 1
               /\ ~call[o].waited => (Len(call[o].ops) <= 1 /\ ~call[o].uncached)
               /\ call[o].outcome = ErrFollow
                  => (Finished(o, "follow") /\ Len(call[o].ops) = 1
                      /\ ~call[o].waited))
    /\ [][\A o \in Orchs :
            (call[o].op = "follow" /\ ncalls'[o] = ncalls[o]
             /\ call[o].ops # <<>> /\ call'[o].ops # call[o].ops)
            => call[o].waited]_vars

\* A DataladRunOrchestrator.follow() has gone all the way to the run
\* record.
C17_Witness ==
    \E o \in Orchs :
        /\ klass[o] = "datalad-run"
        /\ Finished(o, "follow") /\ call[o].outcome = "ok"
        /\ call[o].waited
        /\ OpsNamed(o, "run_command") # {}


\* C18: when session.exists reports root_directory/outputs/<jobid>.tar.gz
\* absent, DataladRunOrchestrator.follow() returns without an error right
\* after that check: it has made no session.get, extracted nothing and
\* created no run record.
C18_MissingBundleNonFatal ==
    \A o \in Orchs :
        (call[o].op = "follow" /\ call[o].bundle = "absent")
        => /\ klass[o] = "datalad-run"
           /\ call[o].waited
           /\ Finished(o, "follow")
           /\ call[o].outcome = "ok"
           /\ LastOp(o) = <<"exists", Join(Root(o), <<"outputs", jobid[o] \o ".tar.gz">>)>>
           /\ OpsNamed(o, "get") = {}
           /\ OpsNamed(o, "tar.extractall") = {}
           /\ OpsNamed(o, "run_command") = {}

\* A follow() has returned on finding the bundle absent.
C18_Witness ==
    \E o \in Orchs :
        /\ Finished(o, "follow")
        /\ call[o].bundle = "absent"
        /\ Cardinality(OpsNamed(o, "exists")) = 1


\* The operations each method makes itself.
PrepareOps == {"exists", "mkdir", "datalad.create_sibling", "datalad.install",
               "datalad.publish", "datalad.get"}
SubmitOps == {"put", "submitter.submit"}
FollowOps == {"submitter.follow", "datalad.update", "datalad.get",
              "datalad.fetch", "exists", "get", "tar.extractall", "os.unlink",
              "run_command"}

\* The operation is a command run on the resource by follow: a git fetch or
\* git merge.
GitCommand(op) ==
    op[1] = "execute_command" /\ op[2] # <<>> /\ op[2][1] = "git"

\* Instance o has taken a step of the call it is in.
InCall(o) == call'[o] # call[o] \/ pc'[o] # pc[o]

PathsOf(files) == {f[1] : f \in files}

C21_MissingDataladBeforeIO ==
    \A o \in Orchs :
        call[o].datalad = "absent"
        => /\ call[o].op = "__init__"
           /\ call[o].outcome = ErrMissingDependency
           /\ call[o].ops = <<>>
           /\ pc[o] = "failed"
           /\ ncalls[o] = 0
           /\ rd_hist[o] = NoHist
           /\ (\A q \in Orchs : pc[q] \in {"new", "failed"})
              => (Resource = <<Ancestors(Pwd), {}, {}>> /\ local_tmp = {})

\* A constructor has raised for want of DataLad.
C21_Witness ==
    \E o \in Orchs :
        /\ call[o].datalad = "absent"
        /\ call[o].outcome = ErrMissingDependency
        /\ pc[o] = "failed"


\* The template a rendering operation renders.
TemplateOf(opname) ==
    IF opname = "render_runscript" THEN templates.runscript
    ELSE templates.submission

\* The value a rendered text must carry for variable v on instance o.
Bound(o, v) ==
    CASE v = "jobid" -> <<jobid[o]>>
      [] v = "root_directory" -> root_dir[o]
      [] v = "remote_directory" -> Join(root_dir[o], DsId)
      [] v = "meta_directory" ->
            root_dir[o] \o DsId \o <<".niceman", "jobs", ResourceName, jobid[o]>>
      [] OTHER -> Get(job_spec[o], v)

\* C22 as claimed: a rendering succeeds exactly when the template exists and
\* each variable it references is one of the four built-in names or a job
\* spec field; it fails with the template-not-found error when the template
\* is absent and with the undefined-variable error when a variable is
\* missing.
C22_Original ==
    \A o \in Orchs, opname \in {"render_runscript", "render_submission"} :
        Finished(o, opname) =>
           LET tpl == TemplateOf(opname)
               known == tpl.refs \subseteq TemplateVars \cup Keys(given_spec[o])
           IN /\ call[o].outcome = "ok" <=> (tpl.exists /\ known)
              /\ ~tpl.exists => call[o].outcome = ErrNoTemplate
              /\ (tpl.exists /\ ~known) => call[o].outcome = ErrUndefined

\* C22: a rendering of an absent template fails with the template-not-found
\* error, root_directory not read; of a present template, it fails with
\* root_directory's error when root_directory cannot be resolved, else with
\* the undefined-variable error when the template references a variable that
\* is neither one of the four built-in names nor a job spec field, and else
\* succeeds with every variable replaced by its value, remote_directory by
\* working_directory; no text is produced on failure.
C22_StrictRendering ==
    \A o \in Orchs, opname \in {"render_runscript", "render_submission"} :
        Finished(o, opname) =>
           LET tpl == TemplateOf(opname)
               known == tpl.refs \subseteq TemplateVars \cup Keys(job_spec[o])
           IN IF ~tpl.exists
              THEN /\ call[o].outcome = ErrNoTemplate
                   /\ call[o].text = {} /\ call[o].ops = <<>> /\ ~call[o].uncached
              ELSE IF root_dir[o] = None
              THEN call[o].outcome \in {ErrPwd, ErrNotAbs} /\ call[o].text = {}
              ELSE IF ~known
              THEN call[o].outcome = ErrUndefined /\ call[o].text = {}
              ELSE /\ call[o].outcome = "ok"
                   /\ call[o].text = {<<v, Bound(o, v)>> : v \in tpl.refs}

\* A run script referencing remote_directory has been rendered.
C22_Witness ==
    \E o \in Orchs :
        /\ Finished(o, "render_runscript") /\ call[o].outcome = "ok"
        /\ \E kv \in call[o].text :
              kv[1] = "remote_directory" /\ kv[2] = Join(root_dir[o], DsId)


\* C23: all successful calls of render_runscript on one instance return the
\* same text, and so do those of render_submission, the call that resolves
\* root_directory and takes the override out of the job spec included.
C23_RenderIdempotent ==
    \A o \in Orchs, opname \in {"render_runscript", "render_submission"} :
        /\ Cardinality({t \in render_hist[o].texts : t[1] = opname}) <= 1
        /\ (Finished(o, opname) /\ call[o].outcome = "ok")
           => <<opname, call[o].text>> \in render_hist[o].texts

\* render_runscript has succeeded again after the rendering that consumed
\* the override.
C23_Witness ==
    \E o \in Orchs :
        /\ render_hist[o].consumed
        /\ render_hist[o].n["render_runscript"] >= 2
        /\ Finished(o, "render_runscript") /\ ~call[o].uncached
        /\ call[o].text # {}


\* Path b lies under directory a.
Under(a, b) == Len(a) < Len(b) /\ SubSeq(b, 1, Len(a)) = a

\* The paths of the files submit() has written for o, if it has resolved its
\* directories, by the operations of its current call.
PathsWritten(o) ==
    {call[o].ops[i][2] : i \in OpsNamed(o, "put")}

\* C24: on every instance whose root_directory has resolved,
\* working_directory lies under root_directory, meta_directory is
\* working_directory/.niceman/jobs/<resource name>/<jobid>, a submit()
\* transfers to meta_directory/runscript and meta_directory/submit and to
\* nothing else and echoes into meta_directory/idmap, and every job file on
\* the resource is one of these three of some instance.
C24_DirectoryNesting ==
    /\ \A o \in Orchs :
          root_dir[o] # None =>
             LET wd == working_directory(root_dir[o])
                 meta == wd \o <<".niceman", "jobs", ResourceName, jobid[o]>>
             IN /\ Under(root_dir[o], wd)
                /\ meta_directory(o, root_dir[o]) = meta
                /\ (Finished(o, "working_directory") /\ call[o].outcome = "ok")
                   => call[o].value = wd
                /\ (Finished(o, "meta_directory") /\ call[o].outcome = "ok")
                   => call[o].value = meta
                /\ call[o].op = "submit" =>
                      /\ PathsWritten(o) \subseteq
                            {meta \o <<"runscript">>, meta \o <<"submit">>}
                      /\ WroteIdmap(o) =>
                            LastOp(o) = <<"execute_command",
                                          <<"echo >">> \o meta \o <<"idmap">> >>
    /\ \A f \in remote_scripts :
          \E o \in Orchs :
             /\ root_dir[o] # None
             /\ f[1] \in {working_directory(root_dir[o])
                            \o <<".niceman", "jobs", ResourceName, jobid[o], n>> :
                          n \in {"runscript", "submit"}}
    /\ \A f \in idmap_files :
          \E o \in Orchs :
             /\ root_dir[o] # None
             /\ f[1] = working_directory(root_dir[o])
                         \o <<".niceman", "jobs", ResourceName, jobid[o], "idmap">>

\* A submit() has written all three job files.
C24_Witness ==
    \E o \in Orchs :
        /\ Finished(o, "submit") /\ call[o].outcome = "ok"
        /\ Cardinality(PathsWritten(o)) = 2
        /\ idmap_files # {}
        /\ Under(root_dir[o], working_directory(root_dir[o]))


\* C25: on an instance constructed with a non-empty override that is not an
\* absolute path, no read of root_directory succeeds, none queries the
\* resource for PWD, and every call that reads it ends with the not-absolute
\* error.
C25_RootFailureStable ==
    \A o \in Orchs :
        LET given == Get(given_spec[o], "root_directory")
        IN (~Falsy(given) /\ ~IsAbs(given))
           => /\ root_dir[o] = None
              /\ rd_hist[o].nok = 0
              /\ rd_hist[o].allq = 0
              /\ (Finished(o, "root_directory") => call[o].outcome = ErrNotAbs)


\* The creation steps (create_sibling for ssh, install for shell) o's
\* current prepare_remote has performed, by the directory created.
Created_wd(o) ==
    {call[o].ops[i][2] :
        i \in OpsNamed(o, "datalad.create_sibling") \cup OpsNamed(o, "datalad.install")}

\* C26: of two instances with the same root_directory on one resource, at
\* most one issues mkdir for it, and none issues it once it exists.
C26_NoMkdirRace ==
    /\ [](\A o, q \in Orchs :
            (o # q /\ root_dir[o] # None /\ root_dir[o] = root_dir[q])
            => life[o].mkroot + life[q].mkroot <= 1)
    /\ [][\A o \in Orchs :
            life'[o].mkroot # life[o].mkroot => Root(o) \notin dirs]_vars

\* C27: of two DataladPairOrchestrator instances with the same
\* working_directory on one resource, at most one performs the creation
\* step for it in its prepare_remote.
C27_NoCreateRace ==
    \A o, q \in Orchs :
        (o # q /\ klass[o] = "datalad-pair" /\ klass[q] = "datalad-pair"
         /\ call[o].op = "prepare_remote" /\ call[q].op = "prepare_remote")
        => Created_wd(o) \cap Created_wd(q) = {}

\* The operations of o's current call that stage the dataset or its inputs.
StagingOps(o) ==
    {i \in DOMAIN call[o].ops :
        call[o].ops[i][1] \in {"datalad.create_sibling", "datalad.install",
                               "datalad.publish", "datalad.get"}}

\* C28: on a resource whose type is neither "ssh" nor "shell", a
\* prepare_remote() whose root_directory resolved ends with the
\* unsupported-type error once root_directory exists on the resource; it
\* has staged nothing and has neither tested nor made meta_directory, which
\* does not exist; the instance is never PREPARED.
C28_UnsupportedResourceType ==
    \A o \in Orchs :
        rtype \notin {"ssh", "shell"}
        => /\ ~life[o].prepared /\ life[o].stage # Prepared
           /\ call[o].op = "prepare_remote" => StagingOps(o) = {}
           /\ (Finished(o, "prepare_remote") /\ root_dir[o] # None)
              => /\ call[o].outcome = ErrResourceType
                 /\ Root(o) \in dirs
                 /\ \A i \in SessionOps(o) :
                       call[o].ops[i] \in {PwdQuery,
                                           <<"exists", Root(o)>>,
                                           <<"mkdir", Root(o)>>}
                 /\ meta_directory(o, Root(o)) \notin dirs

\* A prepare_remote() with inputs on a docker-container resource has made
\* root_directory and failed.
C28_Witness ==
    \E o \in Orchs :
        /\ rtype = "docker-container"
        /\ Finished(o, "prepare_remote")
        /\ call[o].inputs # <<>>
        /\ call[o].outcome = ErrResourceType
        /\ OpsNamed(o, "mkdir") # {}

\* How far a follow() has come, by its position.
FollowRank(p) ==
    CASE p = "fl_wait" -> 1
      [] p = "fl_retrieve" -> 2
      [] p = "fl_fetch" -> 3
      [] p \in {"fl_merge", "fl_get_outputs"} -> 4
      [] p = "fl_exists" -> 5
      [] p = "fl_tfile" -> 6
      [] p = "fl_get" -> 7
      [] p = "fl_extract" -> 8
      [] p = "fl_unlink" -> 9
      [] p = "fl_run" -> 10
      [] OTHER -> 11

\* C29: when the Submitter's follow() returns and every Session operation
\* terminates, a follow() that has started returns (or raises) in the end;
\* and no step of a follow() takes it back to a statement it has passed, so
\* nothing in it polls, waits or retries.
C29_FollowTerminates ==
    /\ \A o \in Orchs :
          (call[o].op = "follow" /\ pc[o] # "idle") ~> Finished(o, "follow")
    /\ [][\A o \in Orchs :
            (call[o].op = "follow" /\ pc[o] # "idle"
             /\ <<pc[o], call[o]>>' # <<pc[o], call[o]>>)
            => FollowRank(pc'[o]) > FollowRank(pc[o])]_vars

\* A DataladRunOrchestrator's follow() has returned after every one of its
\* steps: it waited, fetched, found the bundle, got it and re-ran the command.
C29_Witness ==
    \E o \in Orchs :
        /\ klass[o] = "datalad-run"
        /\ Finished(o, "follow") /\ call[o].outcome = "ok"
        /\ call[o].waited /\ call[o].bundle = "present"
        /\ LastOp(o)[1] = "run_command"

\* The elements of a list.
Elems(q) == {q[i] : i \in DOMAIN q}

\* How often f occurs in the list q.
Occurrences(q, f) == Cardinality({i \in DOMAIN q : q[i] = f})

\* The packages returned by the search whose "files" list holds f.
PackagesHolding(f) ==
    {p \in DOMAIN retrace.returned[1] :
        f \in Elems(retrace.returned[1][p].files)}

\* C30: search_for_files returns for every list of files, and what it
\* returns divides its input: every file given is either in unknown_files or
\* in the "files" list of exactly one package, the one dpkg names for it, as
\* often as it was given, never both; nothing is returned that was not
\* given; a file whose package is named but has no record is in
\* unknown_files; and every package returned has a file.
C30_SearchPartitions ==
    retrace.called =>
      /\ retrace.raised = ""
      /\ LET found_packages == retrace.returned[1]
             unknown_files == retrace.returned[2]
             owner(f) == _get_package_for_file(retrace.system, f).value
         IN /\ \A f \in Elems(retrace.files) :
                 /\ (f \in unknown_files) # (PackagesHolding(f) # {})
                 /\ f \notin unknown_files
                    => /\ PackagesHolding(f) = {owner(f)}
                       /\ Occurrences(found_packages[owner(f)].files, f)
                            = Occurrences(retrace.files, f)
                 /\ (owner(f) # "" /\ retrace.system.query[owner(f)].code # 0)
                    => f \in unknown_files
            /\ unknown_files \subseteq Elems(retrace.files)
            /\ \A p \in DOMAIN found_packages :
                 /\ found_packages[p].files # <<>>
                 /\ found_packages[p].name = p
                 /\ Elems(found_packages[p].files) \subseteq Elems(retrace.files)

====
